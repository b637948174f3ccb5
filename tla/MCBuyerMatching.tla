--------------------------- MODULE MCBuyerMatching ---------------------------
EXTENDS BuyerMatching
=============================================================================
