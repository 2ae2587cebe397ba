----------------------------- MODULE PipelineMC -----------------------------
(* Small instances of Pipeline for TLC: three requests that may be in one batch *)
(* and in different ones, and two with every combination of queues that batch   *)
(* and queues that do not.                                                      *)
EXTENDS Pipeline, TLC

MCSetups ==
    [size : [Stages -> {1, 2}], load : {2}, fails : {TRUE, FALSE}]
        \cup [size : {<<1, 2>>, <<2, 2>>}, load : {3}, fails : {FALSE}]

\* Requests are interchangeable: the run checks invariants only
RequestSymmetry == Permutations(Requests)
=============================================================================
