---------------------------- MODULE OptimizerMC ----------------------------
(* Small pipelines for TLC. *)
EXTENDS Optimizer

\* A batch of b takes as long as b + 1 pieces of work, each of w milliseconds on one cpu
Rate(w, cpu, b) ==
    LET latency == (w * (b + 1)) \div cpu
    IN  [latency |-> latency, throughput |-> (1000 * b) \div latency]

Task(w, cpus, batches) ==
    [variants |-> <<"small", "large">>,
     accuracy |-> [small |-> 1, large |-> 3],
     cpus |-> cpus,
     batches |-> batches,
     profiles |-> [v \in {"small", "large"} |->
                      [k \in DOMAIN cpus |->
                          [j \in DOMAIN batches[v] |-> Rate(w[v], cpus[k], batches[v][j])]]]]

At(v, n) == [variant |-> v, cpu |-> 1, replicas |-> n, batch |-> 1]

\* Two stages, of which one has no profile of its large variant at batches of two
TwoStages ==
    {[graph |-> <<Task([small |-> 40, large |-> a], <<1, 2>>, [small |-> <<1, 4>>, large |-> <<1, 4>>]),
                  Task([small |-> 40, large |-> b], <<1, 4>>, [small |-> <<1, 2>>, large |-> <<1, 4>>])>>,
      initial |-> <<At(v, 1), At("small", n)>>, mode |-> m, limit |-> l,
      steps |-> 2] :
        a \in {80, 160}, b \in {80, 320}, v \in {"small", "large"}, n \in {1, 2},
        m \in {"none", "scale", "switch"}, l \in {1, 2}}

\* One stage with every combination of how many batch sizes its allocations can serve
OneStage ==
    {[graph |-> <<[variants |-> <<"small", "large">>,
                   accuracy |-> [small |-> 1, large |-> 3],
                   cpus |-> <<1, 2, 4>>,
                   batches |-> [small |-> <<1, 2>>, large |-> <<1, 2>>],
                   profiles |-> [v \in {"small", "large"} |-> [k \in 1..3 |-> [j \in 1..2 |->
                       [latency |-> 10, throughput |-> IF j <= serves[v][k] THEN 8 ELSE 1]]]]]>>,
      initial |-> <<At("small", 1)>>, mode |-> "none", limit |-> 1, steps |-> 1] :
        serves \in [{"small", "large"} -> [1..3 -> 0..2]]}

MCSetups == TwoStages \cup OneStage

\* One stage that was profiled on one cpu only, and up to batches of sixteen
LargeBatches ==
    {[graph |-> <<Task([small |-> a, large |-> b], <<1>>, [small |-> <<1, 16>>, large |-> <<1, 16>>])>>,
      initial |-> <<At("small", 1)>>, mode |-> m, limit |-> 1, steps |-> 2] :
        a \in {20, 30, 40}, b \in {40, 60}, m \in {"none", "switch"}}
=============================================================================
