------------------------- MODULE ReplyDraftingProofs -------------------------
(***************************************************************************)
(* Theorems about the letters a model writes, for any number of requests,  *)
(* any models, whatever they write and however often they are asked.       *)
(***************************************************************************)
EXTENDS ReplyDrafting, SequenceTheorems, TLAPS

(* A completion under way has a model to call, and no model is forgotten.  *)
Tried(q) ==
  q.at = "calling" => /\ q.todo # {}
                      /\ q.todo \union q.lost \union q.spared = Models

(* Nothing is answered before its time. *)
Silent(q) == q.at # "answered" => q.source = "none"

(* Why nothing could be had from Gemini. *)
Earned(q) ==
  Client = "gemini" /\ q.source \in {"unavailable", "apology"} =>
    q.lost # {} /\ q.lost \union q.spared = Models

Sound(q) == Tried(q) /\ Silent(q) /\ Earned(q) /\ DraftIsSafe(q) /\ HaggleIsSound(q)

(* The inductive invariant. *)
Inv == TypeOK /\ \A r \in Requests : Sound(request[r])

-----------------------------------------------------------------------------
(* The guardrails and the numbers. *)

(* What goes out after the guardrails read it (guardrails.py).             *)
LEMMA GuardedLetter ==
  ASSUME NEW l \in Letter, NEW floor \in Nat
  PROVE  LET s == Sanitize(l, floor)
         IN  /\ s \in Letter
             /\ s.amount > 0 /\ s.notation \in {"after", "grouped"} => 10 * s.amount >= 9 * floor
             /\ Validate(l, floor) = {} =>
                  /\ s.amount < 1000 \/ floor = 0 \/ ~(9 * floor <= 10 * s.amount /\ 10 * s.amount <= 11 * floor)
                  /\ ~s.needy /\ ~s.batna
<1>. DEFINE s == Sanitize(l, floor)
<1>1. s \in Letter
  BY DEF Sanitize, Letter, Notations
<1>2. ASSUME s.amount > 0, s.notation \in {"after", "grouped"}
      PROVE  10 * s.amount >= 9 * floor
  <2>1. s = l /\ (floor = 0 \/ ~Undercuts(l, floor))
    BY <1>2 DEF Sanitize, Letter
  <2>2. PriceNumber(l) = l.amount
    BY <1>2, <2>1 DEF PriceNumber
  <2>. QED
    BY <1>2, <2>1, <2>2 DEF Undercuts, Letter
<1>3. ASSUME Validate(l, floor) = {}
      PROVE  /\ s.amount < 1000 \/ floor = 0 \/ ~(9 * floor <= 10 * s.amount /\ 10 * s.amount <= 11 * floor)
             /\ ~s.needy /\ ~s.batna
  <2>1. /\ ~(floor > 0 /\ Leaks(l, floor)) /\ ~(floor > 0 /\ Undercuts(l, floor))
        /\ ~l.needy /\ ~l.batna
    BY <1>3 DEF Validate
  <2>2. s = l
    BY <2>1 DEF Sanitize
  <2>. QED
    BY <2>1, <2>2 DEF Leaks, AnyNumber, Letter
<1>. QED
  BY <1>1, <1>2, <1>3

(* A simulated buyer opens no higher than it settles, never above what was  *)
(* asked, nor below the floor unless less was asked (simulate_buyer.py).    *)
LEMMA Haggle ==
  ASSUME NEW o \in Offer
  PROVE  LET opening == Proposed([o EXCEPT !.again = FALSE])
             closing == Proposed([o EXCEPT !.again = TRUE])
         IN  /\ opening <= closing /\ closing <= Asked(o)
             /\ closing >= o.floor \/ o.floor > Asked(o)
<1>1. PICK asked \in Nat, floor \in Nat, market \in Int :
        asked = Asked(o) /\ floor = o.floor /\ market = MarketFloor(o) /\ market <= 100 * asked
  BY DEF Asked, MarketFloor, Lower, Offer
<1>2. /\ Asked([o EXCEPT !.again = TRUE]) = asked /\ MarketFloor([o EXCEPT !.again = TRUE]) = market
      /\ Asked([o EXCEPT !.again = FALSE]) = asked /\ MarketFloor([o EXCEPT !.again = FALSE]) = market
      /\ [o EXCEPT !.again = TRUE].floor = floor
      /\ [o EXCEPT !.again = TRUE].again = TRUE /\ [o EXCEPT !.again = FALSE].again = FALSE
  BY <1>1 DEF Asked, MarketFloor, Offer
<1>. DEFINE middle == (100 * asked + market + 100) \div 200
            opening == (market + 50) \div 100
            closing == Lower(Higher(middle, floor), asked)
<1>3. opening <= middle /\ opening <= asked /\ middle \in Int /\ opening \in Int
  BY <1>1
<1>4. opening <= closing /\ closing <= asked /\ (closing >= floor \/ floor > asked)
  <2>. HIDE DEF middle, opening
  <2>. QED
    BY <1>1, <1>3 DEF Lower, Higher
<1>5. /\ Proposed([o EXCEPT !.again = FALSE]) = opening
      /\ Proposed([o EXCEPT !.again = TRUE]) = closing
  BY <1>2 DEF Proposed, Settlement
<1>. QED
  BY <1>1, <1>4, <1>5

(* A number that ends in the digits of a figure is that figure, or more than *)
(* twice it (simulate_buyer.py).                                            *)
LEMMA OccursMeans ==
  ASSUME NEW figure \in Int, NEW amount \in Nat, Occurs(figure, amount)
  PROVE  amount = figure \/ amount > 2 * figure
<1>1. PICK p \in Places : figure < p /\ amount % p = figure
  BY DEF Occurs
<1>2. p \in Nat /\ p > 0
  BY DEF Places
<1>3. figure >= 0 /\ amount = p * (amount \div p) + figure /\ amount \div p \in Nat
  BY <1>1, <1>2
<1>. QED
  <2>1. CASE amount \div p = 0
    BY <1>2, <1>3, <2>1
  <2>2. CASE amount \div p >= 1
    <3>1. p * (amount \div p) >= p
      <4>. DEFINE n == amount \div p
      <4>1. n \in Nat /\ n >= 1
        BY <1>3, <2>2
      <4>. HIDE DEF n
      <4>2. /\ 1000 * n >= 1000 /\ 10000 * n >= 10000 /\ 100000 * n >= 100000
            /\ 1000000 * n >= 1000000 /\ 10000000 * n >= 10000000
            /\ 100000000 * n >= 100000000 /\ 1000000000 * n >= 1000000000
        BY <4>1
      <4>3. p * n >= p
        BY <1>1, <4>2 DEF Places
      <4>. QED
        BY <4>3 DEF n
    <3>. QED
      BY <1>1, <1>2, <1>3, <3>1
  <2>. QED
    BY <1>3, <2>1, <2>2

LEMMA ProposedIsNumber ==
  ASSUME NEW o \in Offer
  PROVE  Proposed(o) \in Int
<1>1. Asked(o) \in Int /\ MarketFloor(o) \in Int /\ o.floor \in Int
  BY DEF Asked, MarketFloor, Lower, Offer
<1>. QED
  BY <1>1 DEF Proposed, Settlement, Lower, Higher

-----------------------------------------------------------------------------
LEMMA FirstModel == MODELS[1] \in Models /\ Models # {}
<1>1. 1 \in DOMAIN MODELS
  BY ModelsAssumption, LenProperties
<1>. QED
  BY <1>1 DEF Models

LEMMA IdleType == Idle \in Request /\ NoLetter \in Letter /\ NoOffer \in Offer
BY AttemptsAssumption DEF Idle, Request, NoLetter, Letter, NoOffer, Offer, Kinds, Sources, Notations

(* A request refused, an offer of which goes on as before.                  *)
LEMMA UnavailableType ==
  ASSUME NEW q \in Request
  PROVE  /\ Unavailable(q) \in Request
         /\ Unavailable(q).at = "answered" /\ Unavailable(q).kind = q.kind
         /\ Unavailable(q).offer = q.offer /\ Unavailable(q).lost = q.lost /\ Unavailable(q).spared = q.spared
         /\ Unavailable(q).source \in {"unavailable", "apology", "template"}
BY DEF Unavailable, Request, Kinds, Sources

(* A request that was refused is as sound as its reasons.                   *)
LEMMA Refused ==
  ASSUME NEW q \in Request, Client = "gemini" => q.lost # {} /\ q.lost \union q.spared = Models
  PROVE  Unavailable(q) \in Request /\ Sound(Unavailable(q))
<1>1. DraftIsSafe(Unavailable(q))
  BY UnavailableType DEF DraftIsSafe
<1>2. HaggleIsSound(Unavailable(q))
  BY UnavailableType, Haggle DEF HaggleIsSound, Request
<1>. QED
  BY <1>1, <1>2, UnavailableType DEF Sound, Tried, Silent, Earned

(* A completion starts with every model in its place. *)
LEMMA Started ==
  ASSUME NEW q \in Request, q.at # "answered", q.source = "none"
  PROVE  StartCompletion(q) \in Request /\ Sound(StartCompletion(q))
<1>1. Candidates \subseteq Models /\ (Client = "gemini" => Candidates # {})
  BY FirstModel DEF Candidates, Client, Ready
<1>2. CASE Candidates = {}
  BY <1>1, <1>2, Refused DEF StartCompletion
<1>3. CASE Candidates # {}
  <2>. DEFINE s == [q EXCEPT !.at = "calling", !.todo = Candidates, !.lost = {}, !.spared = Models \ Candidates]
  <2>1. s \in Request
    BY <1>1 DEF Request
  <2>2. /\ s.at = "calling" /\ s.todo = Candidates /\ s.lost = {} /\ s.spared = Models \ Candidates
        /\ s.source = "none" /\ s.offer = q.offer /\ s.offer \in Offer
    BY DEF Request
  <2>. HIDE DEF s
  <2>3. Sound(s)
    BY <1>1, <1>3, <2>2, Haggle DEF Sound, Tried, Silent, Earned, DraftIsSafe, HaggleIsSound
  <2>. QED
    BY <1>3, <2>1, <2>3 DEF StartCompletion, s
<1>. QED
  BY <1>2, <1>3

(* What the guardrails make of a draft. *)
LEMMA Guarded ==
  ASSUME NEW q \in Request, NEW l \in Letter, q.kind = "draft", q.at # "answered", q.source = "none"
  PROVE  Guard(q, l) \in Request /\ Sound(Guard(q, l))
<1>. DEFINE broken == Validate(l, q.floor)
<1>1. CASE broken # {} /\ q.attempts < MAX_REGEN_ATTEMPTS
  <2>. DEFINE p == [q EXCEPT !.attempts = @ + 1]
  <2>1. p \in Request /\ p.at # "answered" /\ p.source = "none"
    BY <1>1, AttemptsAssumption DEF Request
  <2>. QED
    BY <1>1, <2>1, Started DEF Guard, Regenerate
<1>2. CASE ~(broken # {} /\ q.attempts < MAX_REGEN_ATTEMPTS)
  <2>. DEFINE letter == Sanitize(l, q.floor)
              source == IF Client = "none" THEN "fallback" ELSE "model"
              s == Answered(q, letter, source, broken)
  <2>1. q.floor \in Nat
    BY DEF Request
  <2>2. letter \in Letter /\ source \in {"model", "fallback"}
    BY <2>1, GuardedLetter
  <2>3. broken \subseteq {"FLOOR_PRICE_LEAK", "BELOW_FLOOR_PRICE", "DESPERATE_LANGUAGE", "BATNA_DISCLOSURE"}
    BY DEF Validate
  <2>4. Guard(q, l) = s
    BY <1>2 DEF Guard, SentOff
  <2>5. /\ letter.amount > 0 /\ letter.notation \in {"after", "grouped"} => 10 * letter.amount >= 9 * q.floor
        /\ broken = {} =>
             /\ letter.amount < 1000 \/ q.floor = 0
                  \/ ~(9 * q.floor <= 10 * letter.amount /\ 10 * letter.amount <= 11 * q.floor)
             /\ ~letter.needy /\ ~letter.batna
    BY <2>1, GuardedLetter
  <2>. HIDE DEF letter, source, broken
  <2>6. s \in Request
    BY <2>2, <2>3 DEF Answered, Request, Sources
  <2>7. /\ s.at = "answered" /\ s.kind = "draft" /\ s.floor = q.floor
        /\ s.letter = letter /\ s.source = source /\ s.warnings = broken
    BY DEF Answered, Request
  <2>. HIDE DEF s
  <2>8. DraftIsSafe(s)
    BY <2>5, <2>7 DEF DraftIsSafe
  <2>. QED
    BY <2>2, <2>4, <2>6, <2>7, <2>8 DEF Sound, Tried, Silent, Earned, HaggleIsSound
<1>. QED
  BY <1>1, <1>2

(* A chat or a buyer turn answered without the guardrails. *)
LEMMA Spoken ==
  ASSUME NEW q \in Request, NEW l \in Letter, q.kind # "draft", NEW source \in {"model", "template"},
         q.kind = "buyer" /\ source = "model" => l.amount = Proposed(q.offer) \/ l.amount > 2 * Proposed(q.offer)
  PROVE  Answered(q, l, source, {}) \in Request /\ Sound(Answered(q, l, source, {}))
<1>. DEFINE s == Answered(q, l, source, {})
<1>1. s \in Request
  BY DEF Answered, Request, Sources
<1>2. s.at = "answered" /\ s.kind = q.kind /\ s.letter = l /\ s.source = source /\ s.offer = q.offer /\ s.offer \in Offer
  BY DEF Answered, Request
<1>. HIDE DEF s
<1>3. HaggleIsSound(s)
  BY <1>2, Haggle DEF HaggleIsSound
<1>. QED
  BY <1>1, <1>2, <1>3 DEF Sound, Tried, Silent, Earned, DraftIsSafe, s

(* A model that brought no text leaves the next, or has been the last.      *)
LEMMA Moved ==
  ASSUME NEW q \in Request, Sound(q), q.at = "calling", NEW m \in q.todo
  PROVE  Moves(q, m) \in Request /\ Sound(Moves(q, m))
<1>. DEFINE rest == [q EXCEPT !.todo = @ \ {m}, !.lost = @ \union {m}]
<1>1. rest \in Request
  BY DEF Request
<1>2. /\ rest.at = "calling" /\ rest.todo = q.todo \ {m} /\ rest.lost = q.lost \union {m} /\ rest.spared = q.spared
      /\ rest.source = q.source /\ rest.offer = q.offer /\ rest.kind = q.kind
      /\ q.source = "none" /\ q.offer \in Offer
      /\ q.todo \union q.lost \union q.spared = Models
  BY DEF Request, Sound, Tried, Silent
<1>3. Moves(q, m) = IF rest.todo = {} THEN Unavailable(rest) ELSE rest
  BY DEF Moves
<1>. HIDE DEF rest
<1>4. CASE rest.todo = {}
  BY <1>1, <1>2, <1>3, <1>4, Refused
<1>5. CASE rest.todo # {}
  BY <1>1, <1>2, <1>3, <1>5, Haggle DEF Sound, Tried, Silent, Earned, DraftIsSafe, HaggleIsSound
<1>. QED
  BY <1>4, <1>5

-----------------------------------------------------------------------------
(* What a step of one request has to show. *)
LEMMA StepOfRequest ==
  ASSUME Inv, NEW r \in Requests, NEW q \in Request, Becomes(r, q), Sound(q),
         keys' = keys, cooling' \subseteq Models
  PROVE  Inv'
<1>1. /\ request' \in [Requests -> Request] /\ request'[r] = q
      /\ \A p \in Requests : p # r => request'[p] = request[p]
  BY DEF Inv, TypeOK, Becomes
<1>2. Client' = Client
  BY DEF Client
<1>3. \A x \in Request : Sound(x) => Sound(x)'
  BY <1>2 DEF Sound, Tried, Silent, Earned, DraftIsSafe, HaggleIsSound, Proposed
<1>4. ASSUME NEW p \in Requests PROVE Sound(request[p])'
  <2>1. PICK x \in Request : x = request'[p] /\ Sound(x)
    BY <1>1 DEF Inv, TypeOK
  <2>2. Sound(x)'
    BY <1>3, <2>1
  <2>. QED
    BY <2>1, <2>2 DEF Sound, Tried, Silent, Earned, DraftIsSafe, HaggleIsSound
<1>. QED
  BY <1>1, <1>4 DEF Inv, TypeOK

-----------------------------------------------------------------------------
LEMMA InitInv == Init => Inv
<1>. SUFFICES ASSUME Init PROVE Inv
  OBVIOUS
<1>1. Idle.at = "idle" /\ Idle.source = "none" /\ Idle.kind = "draft"
  BY DEF Idle
<1>2. Sound(Idle)
  BY <1>1 DEF Sound, Tried, Silent, Earned, DraftIsSafe, HaggleIsSound
<1>. QED
  BY <1>2, IdleType DEF Init, Inv, TypeOK

LEMMA BeginsKeep ==
  ASSUME Inv, NEW r \in Requests,
         BeginDraft(r) \/ BeginChat(r) \/ (\E o \in Offers : BeginBuyerTurn(r, o))
  PROVE  Inv'
<1>1. CASE BeginDraft(r)
  <2>. DEFINE q == [Idle EXCEPT !.at = "loading"]
  <2>1. q \in Request /\ q.at = "loading" /\ q.source = "none" /\ q.kind = "draft"
    BY IdleType DEF Request, Idle
  <2>2. Becomes(r, q)
    BY <1>1 DEF BeginDraft
  <2>. HIDE DEF q
  <2>3. Sound(q)
    BY <2>1 DEF Sound, Tried, Silent, Earned, DraftIsSafe, HaggleIsSound
  <2>. QED
    BY <1>1, <2>1, <2>2, <2>3, StepOfRequest DEF BeginDraft, Inv, TypeOK
<1>2. CASE BeginChat(r)
  <2>. DEFINE q == [Idle EXCEPT !.kind = "chat", !.at = "searching"]
  <2>1. q \in Request /\ q.at = "searching" /\ q.source = "none" /\ q.kind = "chat"
    BY IdleType DEF Request, Idle, Kinds
  <2>2. Becomes(r, q)
    BY <1>2 DEF BeginChat
  <2>. HIDE DEF q
  <2>3. Sound(q)
    BY <2>1 DEF Sound, Tried, Silent, Earned, DraftIsSafe, HaggleIsSound
  <2>. QED
    BY <1>2, <2>1, <2>2, <2>3, StepOfRequest DEF BeginChat, Inv, TypeOK
<1>3. CASE \E o \in Offers : BeginBuyerTurn(r, o)
  <2>1. PICK o \in Offers : BeginBuyerTurn(r, o)
    BY <1>3
  <2>. DEFINE q == [Idle EXCEPT !.kind = "buyer", !.offer = o]
              s == IF keys = {} THEN Answered(q, NoLetter, "template", {}) ELSE StartCompletion(q)
  <2>2. q \in Request /\ q.at = "idle" /\ q.source = "none" /\ q.kind = "buyer"
    BY IdleType, OffersAssumption DEF Request, Idle, Kinds
  <2>3. Becomes(r, s)
    BY <2>1 DEF BeginBuyerTurn
  <2>. HIDE DEF q
  <2>4. s \in Request /\ Sound(s)
    BY <2>2, IdleType, Spoken, Started
  <2>. HIDE DEF s
  <2>. QED
    BY <2>1, <2>3, <2>4, StepOfRequest DEF BeginBuyerTurn, Inv, TypeOK
<1>. QED
  BY <1>1, <1>2, <1>3

LEMMA HandlerKeeps ==
  ASSUME Inv, NEW r \in Requests, Handler(r)
  PROVE  Inv'
<1>0. request[r] \in Request /\ Sound(request[r]) /\ cooling \subseteq Models
  BY DEF Inv, TypeOK
<1>1. CASE \E f \in Floors \union {StubFloor} : LoadContext(r, f)
  <2>1. PICK f \in Nat : LoadContext(r, f)
    BY <1>1, FloorsAssumption DEF StubFloor
  <2>. DEFINE q == [request[r] EXCEPT !.at = "searching", !.floor = f]
  <2>2. q \in Request /\ q.at = "searching" /\ q.source = "none" /\ q.offer \in Offer
    BY <1>0, <2>1 DEF Request, Sound, Silent, LoadContext
  <2>3. Becomes(r, q)
    BY <2>1 DEF LoadContext
  <2>. HIDE DEF q
  <2>4. Sound(q)
    BY <2>2, Haggle DEF Sound, Tried, Silent, Earned, DraftIsSafe, HaggleIsSound
  <2>. QED
    BY <1>0, <2>1, <2>2, <2>3, <2>4, StepOfRequest DEF LoadContext
<1>2. CASE Search(r)
  <2>. DEFINE q == IF request[r].kind = "draft" /\ keys = {} THEN Guard(request[r], FallbackLetter)
                   ELSE StartCompletion(request[r])
  <2>1. FallbackLetter \in Letter
    BY FloorsAssumption DEF FallbackLetter, Letter, Notations
  <2>2. request[r].at = "searching" /\ request[r].source = "none"
    BY <1>0, <1>2 DEF Search, Sound, Silent
  <2>3. q \in Request /\ Sound(q)
    BY <1>0, <2>1, <2>2, Guarded, Started
  <2>4. Becomes(r, q)
    BY <1>2 DEF Search
  <2>. HIDE DEF q
  <2>. QED
    BY <1>0, <1>2, <2>3, <2>4, StepOfRequest DEF Search
<1>3. CASE \E l \in Letters : Writes(r, l)
  <2>1. PICK l \in Letter : Writes(r, l)
    BY <1>3, LettersAssumption
  <2>2. request[r].at = "calling" /\ request[r].source = "none" /\ request[r].kind \in Kinds
    BY <1>0, <2>1 DEF Writes, Sound, Silent, Request
  <2>3. PICK q \in Request : Becomes(r, q) /\ Sound(q)
    <3>1. CASE request[r].kind = "draft"
      <4>1. Guard(request[r], l) \in Request /\ Sound(Guard(request[r], l))
        BY <1>0, <2>2, <3>1, Guarded
      <4>2. Becomes(r, Guard(request[r], l))
        BY <2>1, <3>1 DEF Writes
      <4>. QED
        BY <4>1, <4>2 DEF Becomes
    <3>2. CASE request[r].kind = "chat"
      <4>1. ChatReply(request[r]) \in Request /\ Sound(ChatReply(request[r]))
        BY <1>0, <3>2, IdleType, Spoken DEF ChatReply
      <4>2. Becomes(r, ChatReply(request[r]))
        BY <2>1, <3>2 DEF Writes
      <4>. QED
        BY <4>1, <4>2 DEF Becomes
    <3>3. CASE request[r].kind = "buyer"
      <4>1. BuyerWords(request[r], l) \in Request /\ Sound(BuyerWords(request[r], l))
        <5>1. request[r].offer \in Offer /\ l.amount \in Nat
          BY <1>0 DEF Request, Letter
        <5>2. Occurs(Proposed(request[r].offer), l.amount) =>
                l.amount = Proposed(request[r].offer) \/ l.amount > 2 * Proposed(request[r].offer)
          BY <5>1, ProposedIsNumber, OccursMeans
        <5>. QED
          BY <1>0, <3>3, <5>2, IdleType, Spoken DEF BuyerWords
      <4>2. Becomes(r, BuyerWords(request[r], l))
        BY <2>1, <3>3 DEF Writes
      <4>. QED
        BY <4>1, <4>2 DEF Becomes
    <3>. QED
      BY <2>2, <3>1, <3>2, <3>3 DEF Kinds
  <2>. QED
    BY <1>0, <2>1, <2>3, StepOfRequest DEF Writes
<1>4. CASE \E m \in Models : CallFails(r, m) \/ SoftFails(r, m)
  <2>1. PICK m \in Models : CallFails(r, m) \/ SoftFails(r, m)
    BY <1>4
  <2>2. /\ request[r].at = "calling" /\ m \in request[r].todo
        /\ Becomes(r, Moves(request[r], m)) /\ keys' = keys /\ cooling' \subseteq Models
    BY <1>0, <2>1 DEF CallFails, SoftFails, Calls
  <2>3. Moves(request[r], m) \in Request /\ Sound(Moves(request[r], m))
    BY <1>0, <2>2, Moved
  <2>. QED
    BY <2>2, <2>3, StepOfRequest
<1>. QED
  BY <1>1, <1>2, <1>3, <1>4 DEF Handler

LEMMA Invariant == Spec => []Inv
<1>1. Inv /\ [Next]_vars => Inv'
  <2>. SUFFICES ASSUME Inv, [Next]_vars PROVE Inv'
    OBVIOUS
  <2>1. CASE \E m \in Models : Recover(m)
    BY <2>1 DEF Recover, Inv, TypeOK, Sound, Tried, Silent, Earned, Client, DraftIsSafe, HaggleIsSound
  <2>2. CASE UNCHANGED vars
    BY <2>2 DEF vars, Inv, TypeOK, Sound, Tried, Silent, Earned, Client, DraftIsSafe, HaggleIsSound
  <2>3. CASE Next /\ ~\E m \in Models : Recover(m)
    BY <2>3, BeginsKeep, HandlerKeeps DEF Next
  <2>. QED
    BY <2>1, <2>2, <2>3
<1>. QED
  BY <1>1, InitInv, PTL DEF Spec

(* Every variable has its type; the guardrail loop ends within its attempts *)
(* (rag_service.py, gemini_client.py).                                      *)
THEOREM TypeCorrect == Spec => []TypeOK
<1>1. Inv => TypeOK
  BY DEF Inv
<1>. QED
  BY <1>1, Invariant, PTL

(* No letter with a figure the guardrails can read below the cost price, no *)
(* simulated price out of bounds or understated beyond what the substring   *)
(* test lets through, and no refusal before every model was called or left  *)
(* out for its cooldown (guardrails.py, simulate_buyer.py,                  *)
(* gemini_client.py).                                                       *)
THEOREM RepliesAreSound == Spec => []RepliesSound
<1>1. Inv => RepliesSound
  BY DEF Inv, Sound, Earned, RepliesSound, FiguresAreSafe, UnavailableIsEarned
<1>. QED
  BY <1>1, Invariant, PTL
=============================================================================
