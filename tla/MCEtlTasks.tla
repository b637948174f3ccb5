------------------------------ MODULE MCEtlTasks ------------------------------
EXTENDS EtlTasks, TLC

\* For BPS two years of a heading, and another heading of its chapter.
MCRequests == [bps |-> {<<901, 2023>>, <<901, 2024>>, <<902, 2024>>},
               inatrade |-> {<<901, 2024>>}, un_comtrade |-> {<<901, 2024>>},
               umkm |-> {<<901, 2024>>}]

WorkerSymmetry == Permutations(Workers)
=============================================================================
