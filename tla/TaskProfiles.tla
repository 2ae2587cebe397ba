---------------------------- MODULE TaskProfiles ----------------------------
(* A stage of a pipeline as the optimizer sees it: Task of optimizer/models.py, *)
(* with the measured profiles of its model variants, in the allocation mode     *)
(* "base", in which the variant decides about the cpus.                         *)
EXTENDS Integers, Sequences, FiniteSets, SequencesExt

CONSTANTS
    Threshold,    \* the load (per second) that a base allocation has to sustain
    SlaFactor

(* A task is a record:                                                           *)
(*   variants   the names of its model variants, the least accurate first        *)
(*   accuracy   of each variant                                                  *)
(*   cpus       the allocations that were profiled, the smallest first           *)
(*   batches    for each variant, the batch sizes that were profiled             *)
(*   profiles   for each variant, allocation and batch size (by index), latency  *)
(*              in milliseconds and throughput per second                        *)
\* Profiled alike: every variant with all of the allocations, and every allocation of
\* a variant with the same batch sizes
Rectangular(task) ==
    /\ task.variants # <<>> /\ task.cpus # <<>>
    /\ \A v \in ToSet(task.variants) :
          /\ task.batches[v] # <<>>
          /\ DOMAIN task.profiles[v] = DOMAIN task.cpus
          /\ \A k \in DOMAIN task.cpus : DOMAIN task.profiles[v][k] = DOMAIN task.batches[v]

\* What was measured are numbers
Measured(task) ==
    /\ task.variants \in Seq(DOMAIN task.accuracy) /\ task.cpus \in Seq(Nat)
    /\ \A v \in ToSet(task.variants) :
          /\ task.accuracy[v] \in Int
          /\ task.batches[v] \in Seq(Nat)
          /\ \A k \in DOMAIN task.cpus, j \in DOMAIN task.batches[v] :
                task.profiles[v][k][j] \in [latency : Nat, throughput : Nat]

\* The latency that is asked of a stage: the mean of its variants' at the first batch
\* size and with the most cpus, times five and the factor
Sla(task) ==
    LET lightest == [v \in ToSet(task.variants) |->
                        task.profiles[v][Len(task.cpus)][1].latency]
    IN  (5 * SlaFactor * SumFunction(lightest)) \div Len(task.variants)

----------------------------------------------------------------------------
(* base_allocations *)

\* How many batch sizes an allocation can serve in time and under the threshold load
NumSustains(task, v, k) ==
    Cardinality({j \in DOMAIN task.batches[v] :
                    /\ task.profiles[v][k][j].throughput >= Threshold
                    /\ task.profiles[v][k][j].latency <= Sla(task)})

NoAllocation == 0

\* The walk for the least accurate variant: up to an allocation that can serve some
FirstIndicator(task) ==
    LET able == {k \in DOMAIN task.cpus : NumSustains(task, task.variants[1], k) # 0}
    IN  IF able = {} THEN NoAllocation ELSE Min(able)

\* The walk for another one, from where it ended before: first one step up if more is
\* served there, and on for as long as nothing is
NextIndicator(task, v, from) ==
    LET S(k) == NumSustains(task, v, k)
        last == Len(task.cpus)
        Up(k) == IF k < last /\ S(k + 1) > S(k) THEN k + 1 ELSE k
        walk[k \in 1..last] ==
            IF S(Up(k)) # 0 THEN Up(k) ELSE IF k = last THEN NoAllocation ELSE walk[k + 1]
    IN  IF from = NoAllocation THEN NoAllocation ELSE walk[from]

\* (mutant) every variant starts from the smallest allocation
IndicatorsFromFirst(task) ==
    [i \in DOMAIN task.variants |->
        IF i = 1 THEN FirstIndicator(task) ELSE NextIndicator(task, task.variants[i], 1)]

\* The index of the allocation of each variant, in the order of their accuracy
Indicators(task) ==
    LET ind[i \in DOMAIN task.variants] ==
            IF i = 1 THEN FirstIndicator(task)
            ELSE NextIndicator(task, task.variants[i], ind[i - 1])
    IN  ind

\* Without it, base_allocations raises
HasBaseAllocations(task) == NoAllocation \notin Range(Indicators(task))

BaseAllocation(task, v) ==
    task.cpus[Indicators(task)[CHOOSE i \in DOMAIN task.variants : task.variants[i] = v]]

----------------------------------------------------------------------------
(* The knobs of a task, and what its profile says of it *)

\* (mutant) the allocation is set before the variant is switched
ModelSwitchLate(task, t, v) == [t EXCEPT !.variant = v, !.cpu = BaseAllocation(task, t.variant)]

\* model_switch, and set_to_base_allocation
ModelSwitch(task, t, v) == [t EXCEPT !.variant = v, !.cpu = BaseAllocation(task, v)]

\* The batches profiled for the active variant
IsProfiled(task, t, b) == b \in ToSet(task.batches[t.variant])

ProfileOf(task, t, b) ==
    LET k == CHOOSE i \in DOMAIN task.cpus : task.cpus[i] = t.cpu
        j == CHOOSE i \in DOMAIN task.batches[t.variant] : task.batches[t.variant][i] = b
    IN  task.profiles[t.variant][k][j]
=============================================================================
