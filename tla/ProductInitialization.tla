------------------------ MODULE ProductInitialization ------------------------
(***************************************************************************)
(* What the product initialization workflow promises, seen from outside:   *)
(* every product whose workflow was started has a verdict or is being      *)
(* worked on; a "done" verdict means that the text the product has was     *)
(* classified; only a classification of that text, or a client, changes    *)
(* the HS code; a text change takes the verdict back.                      *)
(***************************************************************************)
EXTENDS Naturals

CONSTANTS Texts, NoText

VARIABLES
  text,        \* what the product says
  hs,          \* the text the HS code is of
  classified,  \* the text the product had when it was last classified
  verdict      \* of the initialization

vars == <<text, hs, classified, verdict>>

Init == text = NoText /\ hs = NoText /\ classified = NoText /\ verdict = "none"

Create ==
  /\ text = NoText
  /\ text' \in Texts
  /\ UNCHANGED <<hs, classified, verdict>>

Start ==
  /\ text # NoText
  /\ verdict \in {"none", "failed"}
  /\ verdict' = "pending"
  /\ UNCHANGED <<text, hs, classified>>

(* A changed text is always classified again. *)
Edit ==
  /\ text # NoText
  /\ text' \in Texts
  /\ verdict' = "pending"
  /\ UNCHANGED <<hs, classified>>

(* The classifier may know no code; the old one then stays. *)
Classify ==
  /\ verdict = "pending"
  /\ classified' = text
  /\ hs' \in {hs, text}
  /\ UNCHANGED <<text, verdict>>

(* A client may classify the product itself, at any time and as it likes. *)
Save ==
  /\ text # NoText
  /\ classified' = text
  /\ hs' \in Texts \union {hs}
  /\ UNCHANGED <<text, verdict>>

Done ==
  /\ verdict = "pending"
  /\ classified = text
  /\ verdict' = "done"
  /\ UNCHANGED <<text, hs, classified>>

Fail ==
  /\ verdict = "pending"
  /\ verdict' = "failed"
  /\ UNCHANGED <<text, hs, classified>>

Next == Create \/ Start \/ Edit \/ Classify \/ Save \/ Done \/ Fail

Spec == Init /\ [][Next]_vars /\ WF_vars(Done \/ Fail)
=============================================================================
