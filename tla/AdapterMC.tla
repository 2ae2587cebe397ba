----------------------------- MODULE AdapterMC -----------------------------
(* A pipeline of two nodes with two variants each for TLC. *)
EXTENDS Adapter

CONSTANTS n1, n2, small, large

Two == {n1, n2}

\* Every node the same
Uniform(v, s, b) == [n \in Two |-> [variant |-> v, size |-> s, batch |-> b]]

MCInitialConfig == Uniform(small, 1, 2)

\* All faults together, where one step has the most states, and several steps with
\* those that leave something behind for the next one
MCFaultSets == { {}, {"status"}, {"status", "api"}, {"api", "teardown"},
                 {"status", "api", "teardown"} }
MCMaxSteps == [f \in MCFaultSets |-> IF f = {"status", "api", "teardown"} THEN 1 ELSE 2]

\* For the run that only looks for a conflict
MCConflicts == {{"status"}}
MCTwoSteps == [f \in MCConflicts |-> 2]

\* The second of two changes less; two that change as much
MCCandidates == { <<Uniform(large, 2, 4), Uniform(small, 1, 4)>>,
                  <<Uniform(large, 2, 2), Uniform(large, 1, 2)>> }
=============================================================================
