--------------------------- MODULE MCReplyDrafting ---------------------------
EXTENDS ReplyDrafting

CONSTANTS pro, flash
MCModels == <<pro, flash>>

Plain(n, how) == [amount |-> n, notation |-> how, needy |-> FALSE, batna |-> FALSE]

\* Figures around a cost price of 200000 in the notations; 4.28, 14.28 and 4.99.
MCLetters ==
  {[NoLetter EXCEPT !.batna = TRUE], Plain(205000, "bare"), Plain(170000, "grouped"),
   Plain(300000, "run"), Plain(1500000, "dotted"), Plain(428, "after"), Plain(499, "after"),
   Plain(1428, "after")}

MCOffers ==
  [seller : {500}, floor : {0, 470}, bench : {450, 900}, again : BOOLEAN]
    \union [seller : {0, 500}, floor : {600}, bench : {0}, again : BOOLEAN]
=============================================================================
