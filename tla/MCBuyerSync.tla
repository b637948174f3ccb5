----------------------------- MODULE MCBuyerSync -----------------------------
(* An instance of BuyerSync for TLC: two queries that meet the same two      *)
(* buyers, one of them over two pages with a placeholder on one and a third  *)
(* page past the cap.                                                        *)
EXTENDS BuyerSync

CONSTANTS acme, best, toTheOrderOf, coffee, cocoa

MCOffer == [q \in Queries |->
  IF q = coffee THEN <<{acme, toTheOrderOf}, {acme, best}, {toTheOrderOf}>>
                ELSE <<{acme, best}>>]
=============================================================================
