---------------------------- MODULE ReplyDrafting ----------------------------
(***************************************************************************)
(* The comms-service: requests that have a language model write a letter.  *)
(* A "draft" goes through the guardrail loop, a "chat" answers from the    *)
(* knowledge base, a "buyer" turn puts a computed price into words. Each   *)
(* request holds one database session and shares with the others only the  *)
(* cooldown table of the model client. A step is what happens between two  *)
(* awaits; every call to a model is one.                                   *)
(***************************************************************************)
EXTENDS Integers, Sequences, FiniteSets

CONSTANTS
  Requests,            \* requests, each served once
  MODELS,              \* Gemini models in order of preference, no duplicates
  Letters,             \* what a model may write
  Floors,              \* cost prices (hpp) a product may have, in rupiah
  MOQ,                 \* minimum order quantity, which the fallback letter states
  Offers,              \* what a buyer turn is asked about
  MAX_REGEN_ATTEMPTS   \* NegotiationRAGService.MAX_REGEN_ATTEMPTS

Models == {MODELS[i] : i \in DOMAIN MODELS}

ASSUME ModelsAssumption ==
  /\ MODELS \in Seq(Models) /\ Len(MODELS) > 0
  /\ \A i, j \in DOMAIN MODELS : MODELS[i] = MODELS[j] => i = j
ASSUME FloorsAssumption == Floors \subseteq Nat /\ MOQ \in Nat
ASSUME AttemptsAssumption == MAX_REGEN_ATTEMPTS \in Nat

(* A letter quotes at most one figure (of a buyer's, the one the check of    *)
(* his words finds, if any); zero is none. The notation says how:           *)
(* "bare" without a currency, "after" before one (200000 IDR), "grouped"    *)
(* (IDR 200,000), "run" (IDR 200000) or "dotted" (IDR 200.000).             *)
Notations == {"bare", "after", "grouped", "run", "dotted"}
Letter == [amount : Nat, notation : Notations, needy : BOOLEAN, batna : BOOLEAN]

(* What a buyer turn is asked about, in cents: the seller's price, the      *)
(* seller's floor, the export benchmark (zero is none), and whether the     *)
(* buyer has spoken before.                                                 *)
Offer == [seller : Nat, floor : Nat, bench : Nat, again : BOOLEAN]

ASSUME LettersAssumption == Letters \subseteq Letter
ASSUME OffersAssumption == Offers \subseteq Offer

VARIABLES
  request,   \* request[r]: where the handler of r stands, and its locals
  cooling,   \* _model_cooldown: models to be skipped for a while
  keys       \* the API keys configured when the process started

vars == <<request, cooling, keys>>

NoLetter == [amount |-> 0, notation |-> "bare", needy |-> FALSE, batna |-> FALSE]
NoOffer == [seller |-> 0, floor |-> 0, bench |-> 0, again |-> FALSE]

-----------------------------------------------------------------------------
(* The guardrails: what the regular expressions make of a figure.           *)

(* The number the leak check reads: a grouped number or four digits.        *)
AnyNumber(l) == IF l.amount < 1000 THEN 0 ELSE l.amount

Leading[n \in Nat] == IF n < 1000 THEN n ELSE Leading[n \div 10]
Dotted(n) == IF n < 1000 THEN n ELSE IF n < 1000000 THEN n \div 1000 ELSE 0

(* The number read next to a currency. After a currency sign a plain number *)
(* matches by its first three digits; one group of dots is read as decimals *)
(* and two groups are not a number at all.                                  *)
PriceNumber(l) ==
  CASE l.notation = "bare"                         -> 0
    [] l.notation \in {"after", "grouped"}         -> l.amount
    [] l.notation = "run"                          -> Leading[l.amount]
    [] l.notation = "dotted"                       -> Dotted(l.amount)

Leaks(l, floor) == /\ 9 * floor <= 10 * AnyNumber(l)
                   /\ 10 * AnyNumber(l) <= 11 * floor
Undercuts(l, floor) == PriceNumber(l) > 0 /\ 10 * PriceNumber(l) < 9 * floor

(* GuardrailEngine.validate, by the ids of the violations.                  *)
Validate(l, floor) ==
  {v \in {"FLOOR_PRICE_LEAK", "BELOW_FLOOR_PRICE", "DESPERATE_LANGUAGE", "BATNA_DISCLOSURE"} :
     \/ v = "FLOOR_PRICE_LEAK" /\ floor > 0 /\ Leaks(l, floor)
     \/ v = "BELOW_FLOOR_PRICE" /\ floor > 0 /\ Undercuts(l, floor)
     \/ v = "DESPERATE_LANGUAGE" /\ l.needy
     \/ v = "BATNA_DISCLOSURE" /\ l.batna}

(* GuardrailEngine.sanitize_draft.                                          *)
Sanitize(l, floor) ==
  IF floor > 0 /\ Undercuts(l, floor) THEN [l EXCEPT !.amount = 0] ELSE l

(* The stub context of a product that cannot be loaded.                     *)
StubFloor == 150000

(* _build_fallback_output: the letter written without a language model.     *)
FallbackLetter == [amount |-> MOQ, notation |-> "bare", needy |-> FALSE, batna |-> FALSE]

-----------------------------------------------------------------------------
(* The numbers of a simulated buyer, in cents.                              *)

Lower(a, b) == IF a < b THEN a ELSE b
Higher(a, b) == IF a > b THEN a ELSE b

Asked(o) == IF o.seller > 0 THEN o.seller ELSE IF o.bench > 0 THEN o.bench ELSE 100

(* Hundredths of a cent: 95% of the benchmark, else 90% of the price, and   *)
(* never above the price.                                                   *)
MarketFloor(o) ==
  Lower(IF o.bench > 0 THEN 95 * o.bench ELSE 90 * Asked(o), 100 * Asked(o))

Settlement(o) ==
  LET middle == (100 * Asked(o) + MarketFloor(o) + 100) \div 200
  IN  Lower(Higher(middle, o.floor), Asked(o))

(* What the buyer says: a counter-offer first, then the settlement.         *)
Proposed(o) == IF o.again THEN Settlement(o) ELSE (MarketFloor(o) + 50) \div 100

-----------------------------------------------------------------------------
Kinds == {"draft", "chat", "buyer"}

(* Why a request was answered without a model's letter.                     *)
Sources == {"none", "model", "fallback", "apology", "template", "unavailable"}

Request ==
  [kind       : Kinds,
   at         : {"idle", "loading", "searching", "calling", "answered"},
   floor      : Nat,            \* the loaded context's floor price
   offer      : Offer,          \* of a buyer turn
   todo       : SUBSET Models,  \* models the completion under way has yet to call
   spared     : SUBSET Models,  \* models it leaves out, because they cool
   lost       : SUBSET Models,  \* models that brought it no text
   attempts   : 0..MAX_REGEN_ATTEMPTS,
   letter     : Letter,         \* the letter answered
   source     : Sources,
   warnings   : SUBSET {"FLOOR_PRICE_LEAK", "BELOW_FLOOR_PRICE",
                        "DESPERATE_LANGUAGE", "BATNA_DISCLOSURE"}]

Idle == [kind |-> "draft", at |-> "idle", floor |-> 0, offer |-> NoOffer, todo |-> {}, spared |-> {}, lost |-> {}, attempts |-> 0,
         letter |-> NoLetter, source |-> "none", warnings |-> {}]

Init ==
  /\ request = [r \in Requests |-> Idle]
  /\ cooling = {}
  /\ keys \in SUBSET {"gemini", "anthropic"}

Becomes(r, q) == request' = [request EXCEPT ![r] = q]

Answered(q, letter, source, warnings) ==
  [q EXCEPT !.at = "answered", !.todo = {}, !.lost = {}, !.spared = {},
            !.letter = letter, !.source = source, !.warnings = warnings]

(* A completion that cannot be had: LLMUnavailableError. A draft passes it  *)
(* on as a 503, a chat apologises, a buyer turn uses its template.          *)
Unavailable(q) ==
  [q EXCEPT !.at = "answered", !.source = CASE q.kind = "draft" -> "unavailable"
                                            [] q.kind = "chat"  -> "apology"
                                            [] q.kind = "buyer" -> "template"]

(* get_llm picks the client, complete its models: those not cooling, or all *)
(* when all are. Anthropic is one model without a cooldown.                 *)
Client == IF "gemini" \in keys THEN "gemini" ELSE IF keys # {} THEN "anthropic" ELSE "none"
Ready == Models \ cooling

Candidates ==
  CASE Client = "none"      -> {}
    [] Client = "anthropic" -> {MODELS[1]}
    [] Client = "gemini"    -> IF Ready # {} THEN Ready ELSE Models

StartCompletion(q) ==
  IF Candidates = {} THEN Unavailable(q)
  ELSE [q EXCEPT !.at = "calling", !.todo = Candidates, !.lost = {}, !.spared = Models \ Candidates]

\* Faulty variant: the attempts are not counted.
RegenerateForever(q) == StartCompletion(q)

(* _regenerate_safe: the model is asked to write the letter again.          *)
Regenerate(q) == StartCompletion([q EXCEPT !.attempts = @ + 1])

SentOff(q, l, broken) ==
  Answered(q, Sanitize(l, q.floor), IF Client = "none" THEN "fallback" ELSE "model", broken)

\* Faulty variant: the letter of the last attempt is not validated.
GuardOnce(q, l) ==
  LET broken == IF q.attempts = MAX_REGEN_ATTEMPTS THEN {} ELSE Validate(l, q.floor)
  IN  IF broken # {} THEN Regenerate(q) ELSE SentOff(q, l, broken)

\* Faulty variant: one attempt too many.
GuardOnceMore(q, l) ==
  LET broken == Validate(l, q.floor)
  IN  IF broken # {} /\ q.attempts <= MAX_REGEN_ATTEMPTS
      THEN Regenerate(q) ELSE SentOff(q, l, broken)

(* The guardrail loop: a letter that breaks a rule is written again, a      *)
(* bounded number of times; then it is sanitized and goes out with the      *)
(* warnings that remain.                                                    *)
Guard(q, l) ==
  LET broken == Validate(l, q.floor)
  IN  IF broken # {} /\ q.attempts < MAX_REGEN_ATTEMPTS
      THEN Regenerate(q) ELSE SentOff(q, l, broken)

-----------------------------------------------------------------------------
BeginDraft(r) ==
  /\ request[r].at = "idle"
  /\ Becomes(r, [Idle EXCEPT !.at = "loading"])
  /\ UNCHANGED <<cooling, keys>>

BeginChat(r) ==
  /\ request[r].at = "idle"
  /\ Becomes(r, [Idle EXCEPT !.kind = "chat", !.at = "searching"])
  /\ UNCHANGED <<cooling, keys>>

(* Without a key the buyer's words are the template.                        *)
BeginBuyerTurn(r, o) ==
  /\ request[r].at = "idle"
  /\ LET q == [Idle EXCEPT !.kind = "buyer", !.offer = o]
     IN  Becomes(r, IF keys = {} THEN Answered(q, NoLetter, "template", {})
                                 ELSE StartCompletion(q))
  /\ UNCHANGED <<cooling, keys>>

(* load_umkm_context finds the product, or answers with the stub: no such   *)
(* row, no cost price, or a failed statement.                               *)
LoadContext(r, floor) ==
  /\ request[r].at = "loading"
  /\ Becomes(r, [request[r] EXCEPT !.at = "searching", !.floor = floor])
  /\ UNCHANGED <<cooling, keys>>

(* The knowledge search, which cannot fail, only find nothing; then the     *)
(* first completion. A draft without any key is written without a model.    *)
Search(r) ==
  /\ request[r].at = "searching"
  /\ Becomes(r, IF request[r].kind = "draft" /\ keys = {} THEN Guard(request[r], FallbackLetter)
                ELSE StartCompletion(request[r]))
  /\ UNCHANGED <<cooling, keys>>

(* What a chat and a buyer turn make of a model's text. The digits of a      *)
(* buyer's figure, the two decimals included, must occur in his words: as    *)
(* the figure, or as the end of a longer one (4.28 occurs in 14.28).  The    *)
(* figures told apart are below ten million dollars.                         *)
ChatReply(q) == Answered(q, NoLetter, "model", {})

Places == {1000, 10000, 100000, 1000000, 10000000, 100000000, 1000000000}

\* Faulty variant: any figure that begins like it will do.
OccursRounded(figure, amount) == amount \div 100 = figure \div 100

Occurs(figure, amount) ==
  \E p \in Places : /\ figure < p /\ (p = 1000 \/ p <= 10 * figure)
                    /\ amount % p = figure

BuyerWords(q, l) ==
  IF Occurs(Proposed(q.offer), l.amount) THEN Answered(q, l, "model", {})
                                  ELSE Answered(q, NoLetter, "template", {})

Writes(r, l) ==
  /\ request[r].at = "calling"
  /\ Becomes(r, CASE request[r].kind = "draft" -> Guard(request[r], l)
                   [] request[r].kind = "chat"  -> ChatReply(request[r])
                   [] request[r].kind = "buyer" -> BuyerWords(request[r], l))
  /\ UNCHANGED <<cooling, keys>>

(* The model being called: of those to do, the most preferred.              *)
Calls(q, m) ==
  \E i \in DOMAIN MODELS :
    m = MODELS[i] /\ m \in q.todo /\ \A j \in 1 .. i - 1 : MODELS[j] \notin q.todo

(* A call that brings no text: the next model, or the end of the           *)
(* completion. Only a soft status of Gemini makes a model cool.            *)
Moves(q, m) ==
  LET rest == [q EXCEPT !.todo = @ \ {m}, !.lost = @ \union {m}]
  IN  IF rest.todo = {} THEN Unavailable(rest) ELSE rest

\* Faulty variant: a hard error ends the completion.
CallFailsHard(r, m) ==
  /\ request[r].at = "calling"
  /\ Calls(request[r], m)
  /\ Becomes(r, Unavailable([request[r] EXCEPT !.lost = @ \union {m}]))
  /\ UNCHANGED <<cooling, keys>>

CallFails(r, m) ==
  /\ request[r].at = "calling"
  /\ Calls(request[r], m)
  /\ Becomes(r, Moves(request[r], m))
  /\ UNCHANGED <<cooling, keys>>

SoftFails(r, m) ==
  /\ request[r].at = "calling"
  /\ Client = "gemini"
  /\ Calls(request[r], m)
  /\ Becomes(r, Moves(request[r], m))
  /\ cooling' = cooling \union {m}
  /\ UNCHANGED keys

(* 90 seconds pass.                                                         *)
Recover(m) ==
  /\ m \in cooling
  /\ cooling' = cooling \ {m}
  /\ UNCHANGED <<request, keys>>

Handler(r) ==
  \/ \E f \in Floors \union {StubFloor} : LoadContext(r, f)
  \/ Search(r)
  \/ \E l \in Letters : Writes(r, l)
  \/ \E m \in Models : CallFails(r, m) \/ SoftFails(r, m)

Next ==
  \/ \E r \in Requests :
       \/ BeginDraft(r)
       \/ BeginChat(r)
       \/ \E o \in Offers : BeginBuyerTurn(r, o)
       \/ Handler(r)
  \/ \E m \in Models : Recover(m)

Spec == Init /\ [][Next]_vars

(* A handler goes on: statements and calls end, the calls by a timeout.     *)
FairSpec == Spec /\ \A r \in Requests : WF_vars(Handler(r))

-----------------------------------------------------------------------------
TypeOK ==
  /\ request \in [Requests -> Request]
  /\ cooling \subseteq Models
  /\ keys \subseteq {"gemini", "anthropic"}

(* A draft that goes out quotes no figure the guardrails can read that is   *)
(* below 90% of the cost price, whatever the model wrote and however often  *)
(* it was asked again; and one that goes out without a warning comes        *)
(* nowhere near the cost price, does not plead and keeps the alternative to *)
(* itself. (Dotted and run-together figures are misread by the code.)       *)
DraftIsSafe(q) ==
  LET n == q.letter.amount
      near(f) == 9 * f <= 10 * n /\ 10 * n <= 11 * f
  IN  (q.kind = "draft" /\ q.source \in {"model", "fallback"}) =>
        /\ n > 0 /\ q.letter.notation \in {"after", "grouped"} => 10 * n >= 9 * q.floor
        /\ q.warnings = {} =>
             /\ n < 1000 \/ q.floor = 0 \/ ~near(q.floor)
             /\ ~q.letter.needy /\ ~q.letter.batna

(* A simulated buyer never offers more than it was asked for, opens no      *)
(* higher than it settles, and does not settle below the seller's floor     *)
(* unless the seller asked less (simulate_buyer.py 66 says never, but the   *)
(* line after it caps the settlement at the asking price). Its words carry  *)
(* the figure the reply reports or, as the check looks for the digits only, *)
(* one more than twice as high: they never promise less.                    *)
HaggleIsSound(q) ==
  LET opening == Proposed([q.offer EXCEPT !.again = FALSE])
      closing == Proposed([q.offer EXCEPT !.again = TRUE])
  IN  q.kind = "buyer" =>
        /\ opening <= closing /\ closing <= Asked(q.offer)
        /\ closing >= q.offer.floor \/ q.offer.floor > Asked(q.offer)
        /\ q.source = "model" => \/ q.letter.amount = Proposed(q.offer)
                                 \/ q.letter.amount > 2 * Proposed(q.offer)

FiguresAreSafe ==
  \A r \in Requests : request[r].at = "answered" =>
    DraftIsSafe(request[r]) /\ HaggleIsSound(request[r])

(* With a Gemini key a request gives up only when at least one model was    *)
(* called and all the others failed it too, or were cooling for another     *)
(* request when its completion began: one that fails leaves the next.       *)
UnavailableIsEarned ==
  \A r \in Requests :
    (Client = "gemini" /\ request[r].source \in {"unavailable", "apology"}) =>
      /\ request[r].lost # {}
      /\ request[r].lost \union request[r].spared = Models

(* What is answered is safe to send, and that nothing is has its reason.    *)
RepliesSound == FiguresAreSafe /\ UnavailableIsEarned

(* Every request that began is answered, however often the model breaks the *)
(* rules and whichever calls fail.                                          *)
Answers ==
  \A r \in Requests : request[r].at # "idle" ~> request[r].at = "answered"

=============================================================================
