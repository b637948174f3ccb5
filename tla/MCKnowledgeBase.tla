--------------------------- MODULE MCKnowledgeBase ---------------------------
EXTENDS KnowledgeBase, TLC

CONSTANTS fob, docs, moq

\* fob is long enough to be cut in two.
MCCategory == (fob :> "incoterms") @@ (docs :> "documents") @@ (moq :> "negotiation")
MCParagraphs == (fob :> <<9, 5>>) @@ (docs :> <<8>>) @@ (moq :> <<2, 3>>)

ProcessSymmetry == Permutations(Seeders) \union Permutations(Embedders)
=============================================================================
