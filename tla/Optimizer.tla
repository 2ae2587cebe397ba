------------------------------ MODULE Optimizer ------------------------------
(* The optimizer (optimizer/optimizer.py, the method "gurobi" over measured       *)
(* profiles) at work in the simulated adaptation loop (optimizer/sim_adapter.py). *)
(* Its parameters are read off the one Pipeline object that the answers are       *)
(* written to afterwards, and that the numbers of the report are taken from.      *)
EXTENDS TaskProfiles

CONSTANTS
    Setups,         \* what is explored: the tasks of a pipeline, the knobs they start
                    \* with, baseline_mode, num_state_limit, and a bound on the steps
    Loads,          \* predicted loads (per second)
    ScalingCap, BatchingCap,
    Alpha, Beta, Gamma

\* What an adaptation sets of a task
Knobs == {"variant", "cpu", "replicas", "batch"}

ASSUME OptimizerAssumption ==
    /\ \A s \in Setups :
          /\ IsFiniteSet(DOMAIN s.graph)
          /\ \A i \in DOMAIN s.graph : Rectangular(s.graph[i]) /\ Measured(s.graph[i])
          /\ \A i \in DOMAIN s.graph : DOMAIN s.initial[i] = Knobs
          /\ s.limit \in Nat \ {0} /\ s.steps \in Nat
    /\ Loads \subseteq Nat
    /\ ScalingCap \in Nat \ {0} /\ BatchingCap \in Nat \ {0}
    /\ SlaFactor \in Nat /\ Alpha \in Int /\ Beta \in Int /\ Gamma \in Int

VARIABLES
    setup,     \* one of Setups
    tasks,     \* pipeline.inference_graph: variant, cpu, replicas and batch of each task
    load,      \* the predicted load of this step
    phase,     \* "idle", "solve" or "write": where the optimizer is
    params,    \* the coefficients of the decision problem
    answers,   \* the solutions in the pool of the solver
    next,      \* the index of the one that is written next
    configs,   \* new_configs
    old,       \* old_config, or None
    report,    \* the configuration saved, and the numbers saved with it, or None
    step

vars == <<setup, tasks, load, phase, params, answers, next, configs, old, report, step>>

None == <<>>
Graph == setup.graph
Stages == DOMAIN Graph
VariantsOf(s) == ToSet(Graph[s].variants)

----------------------------------------------------------------------------
(* The coefficients *)

PipelineSla == SumFunction([s \in Stages |-> Sla(Graph[s])])

\* The batch sizes of any variant of any task
DistinctBatches ==
    LET profiled(s) == UNION {ToSet(Graph[s].batches[v]) : v \in VariantsOf(s)}
    IN  {b \in UNION {profiled(s) : s \in Stages} : b <= BatchingCap}

\* latency_parameters and throughput_parameters: of each task, variant and batch size.
\* What is missing is as slow as 1000 seconds and serves next to nothing
Parameters(ts) ==
    LET switched(s, v) == ModelSwitch(Graph[s], ts[s], v)
    IN  [s \in Stages |-> [v \in VariantsOf(s) |-> [b \in DistinctBatches |->
            IF IsProfiled(Graph[s], switched(s, v), b)
            THEN ProfileOf(Graph[s], switched(s, v), b)
            ELSE [latency |-> 1000000, throughput |-> 0]]]]

\* base_allocations of the optimizer
BaseAllocations == [s \in Stages |-> [v \in VariantsOf(s) |-> BaseAllocation(Graph[s], v)]]

----------------------------------------------------------------------------
(* The decision problem.  Latencies are compared after multiplication by the load *)

\* func_q: (batch - 1) / arrival_rate, in milliseconds
FuncQ(batch) == IF load = 0 THEN 0 ELSE 1000 * (batch - 1)
Scale == IF load = 0 THEN 1 ELSE load

\* What may be chosen for a stage: its replicas carry the load, and a baseline changes
\* only the replicas, or leaves them alone
StageChoices(s) ==
    {c \in [variant : VariantsOf(s), batch : DistinctBatches, replicas : 1..ScalingCap] :
        /\ params.profile[s][c.variant][c.batch].throughput * c.replicas >= load
        /\ setup.mode = "scale" => c.variant = tasks[s].variant
        /\ setup.mode = "switch" => c.replicas = tasks[s].replicas}

\* The queueing latency is that of the binary variable b[stage, batch], not of the batch
\* size, and counts for every variant and every batch size
Queueing(s, c) ==
    Len(Graph[s].variants)
      * SumFunction([b \in DistinctBatches |-> FuncQ(IF b = c.batch THEN 1 ELSE 0)])

Latency(s, c) == params.profile[s][c.variant][c.batch].latency * Scale + Queueing(s, c)

Solutions ==
    LET choices == [s \in Stages |-> StageChoices(s)]
        sla == PipelineSla * Scale
    IN  {x \in [Stages -> UNION Range(choices)] :
            /\ \A s \in Stages : x[s] \in choices[s]
            /\ SumFunction([s \in Stages |-> Latency(s, x[s])]) <= sla}

Objective(x) ==
    SumFunction([s \in Stages |->
        Alpha * Graph[s].accuracy[x[s].variant]
          - Beta * params.base[s][x[s].variant] * x[s].replicas
          - Gamma * x[s].batch])

\* The solver returns as many of the optimal solutions as are asked for, in any order
Answers(solutions) ==
    LET top == Max({Objective(x) : x \in solutions})
        best == {x \in solutions : Objective(x) = top}
    IN  Injection(1..Min({setup.limit, Cardinality(best)}), best)

----------------------------------------------------------------------------
(* The answer *)

\* (mutant) the replicas stay what they were
WriteWithoutScale(ts, x) ==
    [s \in Stages |-> [ModelSwitch(Graph[s], ts[s], x[s].variant) EXCEPT !.batch = x[s].batch]]

\* A solution is written to the pipeline, and read back from there
Write(ts, x) ==
    [s \in Stages |-> [ModelSwitch(Graph[s], ts[s], x[s].variant)
                          EXCEPT !.batch = x[s].batch, !.replicas = x[s].replicas]]

\* Only the configuration the loop starts with has its batch sizes as text, like those of
\* the candidates when they are compared: any other one differs
Score(new) ==
    - Cardinality({s \in Stages : new[s].variant # old.config[s].variant})
    - Cardinality({s \in Stages : ~old.text \/ new[s].batch # old.config[s].batch})

ChooseConfig(new) ==
    IF old = None THEN new[1]
    ELSE new[Min({i \in DOMAIN new : \A j \in DOMAIN new : Score(new[j]) <= Score(new[i])})]

\* (mutant) the numbers are those of a copy of the pipeline, taken when the loop starts
SavedOfCopy(config, ts) ==
    [config |-> config,
     numbers |-> [s \in Stages |->
        LET t == setup.initial[s] IN
            IF IsProfiled(Graph[s], t, t.batch) THEN ProfileOf(Graph[s], t, t.batch) ELSE None]]

\* Latencies and throughputs are those of the pipeline as the last solution left it
Saved(config, ts) ==
    [config |-> config,
     numbers |-> [s \in Stages |-> ProfileOf(Graph[s], ts[s], ts[s].batch)]]

----------------------------------------------------------------------------
(* An adaptation step *)

\* Building the adapter already raises without them
AllHaveBase == \A s \in Stages : HasBaseAllocations(Graph[s])

\* The load is predicted, and the coefficients are read off the pipeline
Start(rate) ==
    /\ phase = "idle" /\ AllHaveBase /\ step < setup.steps
    /\ phase' = "solve"
    /\ step' = step + 1
    /\ load' = rate
    /\ params' = [profile |-> Parameters(tasks), base |-> BaseAllocations]
    /\ configs' = <<>>
    /\ UNCHANGED <<setup, tasks, answers, next, old, report>>

Solve ==
    /\ phase = "solve"
    /\ LET solutions == Solutions IN
          /\ solutions # {}
          /\ answers' \in Answers(solutions)
    /\ phase' = "write" /\ next' = 1
    /\ UNCHANGED <<setup, tasks, load, params, configs, old, report, step>>

\* Nothing is chosen: the next step takes the first configuration it is offered
NoSolution ==
    /\ phase = "solve" /\ Solutions = {}
    /\ phase' = "idle"
    /\ old' = None /\ report' = None
    /\ UNCHANGED <<setup, tasks, load, params, answers, next, configs, step>>

\* A solution goes to the pipeline, and what the pipeline says then to the candidates
WriteAnswer ==
    /\ phase = "write" /\ next \in DOMAIN answers
    /\ next' = next + 1
    /\ tasks' = Write(tasks, answers[next])
    /\ configs' = Append(configs, tasks')
    /\ UNCHANGED <<setup, load, phase, params, answers, old, report, step>>

Choose ==
    /\ phase = "write" /\ next \notin DOMAIN answers
    /\ LET chosen == ChooseConfig(configs) IN
          /\ old' = [config |-> chosen, text |-> FALSE]
          /\ report' = Saved(chosen, tasks)
    /\ phase' = "idle"
    /\ UNCHANGED <<setup, tasks, load, params, answers, next, configs, step>>

Init ==
    /\ setup \in Setups
    /\ tasks = setup.initial
    /\ old = [config |-> setup.initial, text |-> TRUE]
    /\ phase = "idle" /\ params = None /\ answers = <<>> /\ next = 1
    /\ load = 0 /\ configs = <<>> /\ report = None
    /\ step = 0

Next == (\E rate \in Loads : Start(rate)) \/ Solve \/ NoSolution \/ WriteAnswer \/ Choose

Spec == Init /\ [][Next]_vars

----------------------------------------------------------------------------
(* Properties *)

\* The base allocations are what their walk is to find: each serves some batch size,
\* none is smaller than a less accurate variant's, and each is the first one that serves
\* any, or the step above it if that serves more (models.py:372)
BaseAllocationRule ==
    \A s \in Stages : LET ind == Indicators(Graph[s]) IN
        \A i \in DOMAIN ind :
            LET S(k) == NumSustains(Graph[s], Graph[s].variants[i], k)
                from == IF i = 1 THEN 1 ELSE ind[i - 1]
            IN  IF from = NoAllocation \/ \A k \in from..Len(Graph[s].cpus) : S(k) = 0
                THEN ind[i] = NoAllocation
                ELSE /\ S(ind[i]) # 0 /\ ind[i] >= from
                     /\ \A k \in from..ind[i] - 1 :
                           S(k) = 0 \/ (i # 1 /\ k = from /\ ind[i] = from + 1 /\ S(ind[i]) > S(k))

\* What is answered carries the load, when it is read back from the pipeline with the
\* cpus that the pipeline gave it (can_sustain_load, optimizer.py:974)
SustainsLoad ==
    \A i \in DOMAIN configs : \A s \in Stages :
        LET t == configs[i][s] IN
            /\ IsProfiled(Graph[s], t, t.batch)
            /\ load <= t.replicas * ProfileOf(Graph[s], t, t.batch).throughput

\* A step does not depend on the answers of earlier steps, although they were written to
\* the pipeline that its coefficients are read off, and a baseline keeps what it must not
\* change for all of the loop
Memoryless ==
    /\ phase # "idle" => params.profile = Parameters(setup.initial)
    /\ \A s \in Stages :
          /\ setup.mode = "scale" => tasks[s].variant = setup.initial[s].variant
          /\ setup.mode = "switch" => tasks[s].replicas = setup.initial[s].replicas

\* With one solution asked for, the numbers saved are those of the configuration that is
\* saved (with several they are those of the last one, whichever is chosen)
NumbersOfConfig ==
    setup.limit = 1 /\ phase = "idle" /\ report # None =>
        \A s \in Stages : LET t == report.config[s] IN
            report.numbers[s] = ProfileOf(Graph[s], t, t.batch)

\* README.md:4: IPA configures a pipeline to "meet user-defined latency Service Level
\* Agreements": the latencies of its stages add up to no more
MeetsSla ==
    \A i \in DOMAIN configs :
        SumFunction([s \in Stages |-> LET t == configs[i][s] IN
                        ProfileOf(Graph[s], t, t.batch).latency]) <= PipelineSla
=============================================================================
