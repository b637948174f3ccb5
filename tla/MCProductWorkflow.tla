--------------------------- MODULE MCProductWorkflow ---------------------------
(* Instances of ProductWorkflow and of its refinement for TLC. *)
EXTENDS ProductWorkflowPromise, TLC

(* The three kinds of stage: classification, buyer sync, and a bookkeeping  *)
(* stage, with the attempts shortened to two and one.                       *)
ShortStages   == <<"hs_classification", "buyer_sync", "dashboard_bootstrap">>
ShortAttempts == <<2, 1, 1>>

(* The list and the attempts of the code. *)
AllStages   == <<"hs_classification", "embedding", "buyer_sync", "buyer_matching",
                 "market_intelligence", "export_readiness", "dashboard_bootstrap">>
AllAttempts == <<3, 1, 2, 1, 1, 1, 1>>

TaskSymmetry == Permutations(Tasks) \union Permutations(Texts)
=============================================================================
