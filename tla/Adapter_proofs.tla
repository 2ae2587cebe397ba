--------------------------- MODULE Adapter_proofs ---------------------------
(* Theorems about Adapter for every set of nodes, every answer the optimizer  *)
(* may give, every number of steps and every combination of faults.           *)
EXTENDS Adapter, FiniteSetTheorems, SequenceTheorems, WellFoundedInduction, TLAPS

----------------------------------------------------------------------------
(* Choosing a configuration *)

\* A set of natural numbers has a least element
LEMMA LeastNat ==
    ASSUME NEW T, T \subseteq Nat, T # {}
    PROVE  \E x \in T : \A y \in T : x <= y
  <1> DEFINE Less == {ss \in Nat \X Nat : ss[1] < ss[2]}
  <1>1. IsWellFoundedOn(Less, Nat)
    BY NatLessThanWellFounded, Zenon DEF OpToRel
  <1> HIDE DEF Less
  <1>2. PICK x \in T : \A y \in T : ~(<<y, x>> \in Less)
    BY <1>1, WFMin
  <1>3. \A y \in T : ~(y < x)
    BY <1>2 DEF Less
  <1> QED
    BY <1>3

\* The number of changes is a natural number, as there are finitely many nodes
LEMMA ChangesType ==
    ASSUME NEW new, NEW current
    PROVE  Changes(new, current) \in Nat
  <1> DEFINE V == {n \in Nodes : new[n].variant # current[n].variant}
             B == {n \in Nodes : new[n].batch # current[n].batch}
  <1>1. IsFiniteSet(V) /\ IsFiniteSet(B)
    BY FS_Subset, AdapterAssumption
  <1>2. Cardinality(V) \in Nat /\ Cardinality(B) \in Nat
    BY <1>1, FS_CardinalityType
  <1> QED
    BY <1>2 DEF Changes

\* choose_config picks the first of the candidates that change least
LEMMA ChooseIndexLeast ==
    ASSUME NEW new \in Seq(Config), new # <<>>, NEW current
    PROVE  /\ ChooseIndex(new, current) \in DOMAIN new
           /\ \A j \in DOMAIN new :
                Changes(new[ChooseIndex(new, current)], current)
                  <= Changes(new[j], current)
  <1> DEFINE score(j) == Changes(new[j], current)
             Scores == {score(j) : j \in DOMAIN new}
  <1>1. DOMAIN new \subseteq Nat /\ DOMAIN new # {}
    <2>1. Len(new) \in Nat /\ Len(new) # 0 /\ DOMAIN new = 1..Len(new)
      BY EmptySeq, LenProperties
    <2> QED
      BY <2>1
  <1>2. \A j \in DOMAIN new : score(j) \in Nat
    BY ChangesType
  <1> HIDE DEF score
  <1>3. Scores \subseteq Nat /\ Scores # {}
    BY <1>1, <1>2
  <1>4. PICK m \in Scores : \A s \in Scores : m <= s
    BY <1>3, LeastNat
  <1> DEFINE Best == {j \in DOMAIN new : score(j) = m}
  <1>5. Best \subseteq Nat /\ Best # {}
    BY <1>1, <1>4
  <1>6. PICK i \in Best : \A j \in Best : i <= j
    BY <1>5, LeastNat
  <1>7. i \in DOMAIN new /\ \A j \in DOMAIN new :
           score(i) <= score(j) /\ (score(i) = score(j) => i <= j)
    BY <1>4, <1>6
  <1> USE DEF score
  <1> QED
    BY <1>7 DEF ChooseIndex

----------------------------------------------------------------------------
(* Types *)

LEMMA CurrentConfigType ==
    ASSUME TypeOK
    PROVE  CurrentConfig \in Config
  BY DEF TypeOK, CurrentConfig, Config, NodeConfig, Batch

\* A chosen configuration is one of the optimizer's
LEMMA ChosenType ==
    ASSUME TypeOK, candidates # <<>>
    PROVE  candidates[ChooseIndex(candidates, CurrentConfig)] \in Config
  <1>1. candidates \in Seq(Config)
    BY AdapterAssumption DEF TypeOK
  <1>2. ChooseIndex(candidates, CurrentConfig) \in DOMAIN candidates
    BY <1>1, ChooseIndexLeast
  <1> QED
    BY <1>1, <1>2

StepReport == [config : Config, changed : [Nodes -> BOOLEAN]]

Working(n) == worker[n].at \in {"getNode", "getQueue", "replaceNode", "replaceQueue"}

\* What the step has at hand at each of its points: an answer when it is looked
\* at, an open report after the startup, a configuration to apply while threads
\* run, and an attempt left for a thread that works
InStep ==
    /\ pc \in {"check", "choose"} => candidates # <<>>
    /\ pc \notin {"startup", "crashed"} => report \in StepReport
    /\ pc = "change" => toApply \in Config
    /\ pc # "change" => \A n \in Nodes : worker[n].at = "idle"
    /\ \A n \in Nodes : Working(n) => worker[n].attempt <= 2

LEMMA TypeInit == Init => TypeOK /\ InStep
  BY AdapterAssumption
  DEF Init, TypeOK, InStep, Working, Config, NodeConfig, Worker, NoConfig, Unbound

\* The main thread reads, chooses and reports well-formed configurations
LEMMA MainType ==
    ASSUME TypeOK, InStep, Main
    PROVE  TypeOK' /\ InStep'
  <1> USE AdapterAssumption
  <1>1. CASE StartAdaptation
    <2>1. Save(CurrentConfig) \in StepReport
      BY CurrentConfigType DEF Save, StepReport
    <2> QED
      BY <1>1, <2>1 DEF StartAdaptation, TypeOK, InStep, Working, StepReport, clusterVars
  <1>2. CASE Abort
    BY <1>2 DEF Abort, TypeOK, InStep, Working, clusterVars
  <1>3. CASE NoLoadData
    BY <1>3 DEF NoLoadData, TypeOK, InStep, Working, clusterVars
  <1>4. CASE Optimize
    BY <1>4 DEF Optimize, TypeOK, InStep, Working, clusterVars
  <1>5. CASE NoSolution
    BY <1>5 DEF NoSolution, TypeOK, InStep, Working, clusterVars
  <1>6. CASE KeepConfig
    BY <1>6, CurrentConfigType DEF KeepConfig, KeepCurrent, TypeOK, InStep, Working, clusterVars
  <1>7. CASE StillUp
    BY <1>7 DEF StillUp, TypeOK, InStep, Working, clusterVars
  <1>8. CASE ChooseConfig
    <2>1. toApply' \in Config /\ before' \in Config
      BY <1>8, CurrentConfigType, ChosenType DEF ChooseConfig, InStep
    <2> QED
      BY <1>8, <2>1 DEF ChooseConfig, Worker, TypeOK, InStep, Working, clusterVars
  <1>9. CASE NothingToChoose
    BY <1>9 DEF NothingToChoose, TypeOK, InStep, Working, clusterVars
  <1>10. CASE JoinWorkers
    BY <1>10 DEF JoinWorkers, Worker, TypeOK, InStep, Working, clusterVars
  <1>11. CASE Report
    <2>1. report \in StepReport
      BY <1>11 DEF Report, InStep
    <2>2. results # Unbound => report' \in StepReport
      BY <1>11, <2>1 DEF Report, TypeOK, StepReport
    <2> QED
      BY <1>11, <2>1, <2>2 DEF Report, TypeOK, InStep, Working, StepReport, clusterVars
  <1> QED
    BY <1>1, <1>2, <1>3, <1>4, <1>5, <1>6, <1>7, <1>8, <1>9, <1>10, <1>11 DEF Main

WorkerStates ==
    [at : {"idle", "getNode", "getQueue", "replaceNode", "replaceQueue", "returned",
           "raised"},
     attempt : 0..3, fresh : SUBSET Kinds, result : BOOLEAN]

\* A thread that changes its own state leaves the states of all of them well formed
LEMMA WorkerUpdate ==
    ASSUME NEW w \in [Nodes -> WorkerStates], NEW n \in Nodes, NEW v \in WorkerStates
    PROVE  [w EXCEPT ![n] = v] \in [Nodes -> WorkerStates]
  OBVIOUS

\* So do the threads
LEMMA WorkerType ==
    ASSUME TypeOK, InStep, NEW n \in Nodes, ChangeNodeConfig(n)
    PROVE  TypeOK' /\ InStep'
  <1> USE AdapterAssumption DEF TypeOK, InStep, Working, mainVars
  <1>1. CASE GetNode(n)
    BY <1>1 DEF GetNode, Kinds, clusterVars
  <1>2. CASE GetQueue(n)
    BY <1>2 DEF GetQueue, Exists, Objects, Kinds, clusterVars
  <1>3. CASE GetFails(n)
    BY <1>3 DEF GetFails, clusterVars
  <1>4. CASE ReplaceNode(n)
    <2>1. Desired(n) \in NodeConfig
      BY <1>4 DEF ReplaceNode, Desired, Config, NodeConfig
    <2> QED
      BY <1>4, <2>1 DEF ReplaceNode, StillFresh
  <1>5. CASE ReplaceQueue(n)
    <2>1. toApply \in Config /\ toApply[n].batch \in Batches
      BY <1>5 DEF ReplaceQueue, Config, NodeConfig
    <2>2. queue' \in [Nodes -> Batches]
      BY <1>5, <2>1 DEF ReplaceQueue
    <2>3. worker' \in [Nodes -> WorkerStates]
      <3>1. [worker[n] EXCEPT !.at = "returned", !.result = TRUE] \in WorkerStates
        BY DEF WorkerStates
      <3>2. worker' = [worker EXCEPT ![n] = [@ EXCEPT !.at = "returned", !.result = TRUE]]
        BY <1>5 DEF ReplaceQueue
      <3> QED
        BY <3>1, <3>2, WorkerUpdate DEF WorkerStates
    <2> QED
      BY <1>5, <2>2, <2>3 DEF ReplaceQueue, WorkerStates
  <1>6. CASE ReplaceFails(n)
    <2> DEFINE tried == worker[n].attempt
    <2>1. Working(n)
      BY <1>6 DEF ReplaceFails
    <2>2. tried \in 0..3 /\ tried <= 2
      BY <2>1
    <2>3. tried + 1 \in 0..3 /\ (tried < 2 => tried + 1 <= 2)
      BY <2>2
    <2>4. Retry(n) /\ UNCHANGED <<mainVars, clusterVars>>
      BY <1>6 DEF ReplaceFails
    <2>5. worker[n].at # "idle" /\ pc = "change"
      BY <2>1
    <2>6. TypeOK'
      <3>1. worker' \in [Nodes -> [at : {"idle", "getNode", "getQueue", "replaceNode",
                                         "replaceQueue", "returned", "raised"},
                                   attempt : 0..3, fresh : SUBSET Kinds,
                                   result : BOOLEAN]]
        <4>1. PICK a \in 0..3, p \in {"replaceNode", "returned"} :
                 worker' = [worker EXCEPT ![n] = [@ EXCEPT !.attempt = a, !.at = p]]
          BY <2>3, <2>4 DEF Retry
        <4>2. [worker[n] EXCEPT !.attempt = a, !.at = p] \in WorkerStates
          BY DEF WorkerStates
        <4> QED
          BY <4>1, <4>2, WorkerUpdate DEF WorkerStates
      <3> QED
        BY <2>4, <3>1 DEF clusterVars
    <2>7. \A m \in Nodes : Working(m)' => worker'[m].attempt <= 2
      BY <2>3, <2>4 DEF Retry
    <2> QED
      BY <2>4, <2>5, <2>6, <2>7 DEF Retry, clusterVars
  <1> QED
    BY <1>1, <1>2, <1>3, <1>4, <1>5, <1>6 DEF ChangeNodeConfig

\* The cluster only takes away
LEMMA ClusterType ==
    ASSUME TypeOK, InStep, Cluster
    PROVE  TypeOK' /\ InStep'
  <1> USE DEF TypeOK, InStep, Working, mainVars
  <1>1. CASE \E n \in Nodes, kind \in Kinds : UpdateStatus(n, kind)
    BY <1>1 DEF UpdateStatus, clusterVars
  <1>2. CASE \E o \in Objects : DeleteObject(o)
    BY <1>2 DEF DeleteObject
  <1>3. CASE RouterEnds
    BY <1>3 DEF RouterEnds
  <1> QED
    BY <1>1, <1>2, <1>3 DEF Cluster

LEMMA TypeStep == TypeOK /\ InStep /\ [Next]_vars => TypeOK' /\ InStep'
  <1> SUFFICES ASSUME TypeOK, InStep, [Next]_vars
               PROVE  TypeOK' /\ InStep'
    OBVIOUS
  <1>1. CASE Next
    BY <1>1, MainType, ClusterType, WorkerType DEF Next
  <1>2. CASE UNCHANGED vars
    BY <1>2 DEF vars, mainVars, clusterVars, TypeOK, InStep, Working
  <1> QED
    BY <1>1, <1>2

\* Whatever fails, and however long the adapter runs, its configurations are
\* ones of the optimizer or of the cluster and no thread tries more than three
\* times.
THEOREM AdapterTypeCorrect == Spec => []TypeOK
  <1> QED
    BY TypeInit, TypeStep, PTL DEF Spec

----------------------------------------------------------------------------
(* What is reported as changed does run *)

\* How far a thread has come: the node is replaced before its queue, and only
\* the replaced queue makes a success
Applied ==
    \A n \in Nodes :
        /\ worker[n].at = "replaceQueue" => deployment[n] = Desired(n)
        /\ worker[n].result => /\ worker[n].at = "returned"
                               /\ deployment[n] = Desired(n)
                               /\ queue[n] = toApply[n].batch

SuccessInv == Applied /\ SuccessMeansApplied

LEMMA SuccessInit == Init => SuccessInv
  BY DEF Init, SuccessInv, Applied, SuccessMeansApplied, NewResults, Worker

\* An idle thread has neither begun nor made a success
LEMMA IdleApplied ==
    ASSUME TypeOK, InStep, Applied, pc # "change", NEW n \in Nodes
    PROVE  worker[n].at = "idle" /\ ~worker[n].result
  BY DEF InStep, Applied

LEMMA SuccessMain ==
    ASSUME CentralQueue, TypeOK, InStep, SuccessInv, Main
    PROVE  SuccessInv'
  <1> USE DEF clusterVars
  <1> USE DEF SuccessInv
  <1>1. CASE StartAdaptation \/ Abort \/ NoLoadData \/ Optimize \/ NoSolution \/ StillUp
               \/ Report
    <2>1. pc' # "report" /\ UNCHANGED <<toApply, worker, deployment, queue>>
      BY <1>1 DEF StartAdaptation, Abort, NoLoadData, Optimize, NoSolution, StillUp, Report
    <2> QED
      BY <2>1 DEF Applied, Desired, SuccessMeansApplied, NewResults
  <1>2. CASE KeepConfig \/ NothingToChoose
    <2>1. pc # "change" /\ UNCHANGED <<worker, deployment, queue>>
      BY <1>2 DEF KeepConfig, NothingToChoose
    <2>2. Applied'
      BY <2>1, IdleApplied DEF Applied
    <2>3. SuccessMeansApplied'
      BY <1>2 DEF KeepConfig, KeepCurrent, NothingToChoose, SuccessMeansApplied, NewResults
    <2> QED
      BY <2>2, <2>3
  <1>3. CASE ChooseConfig
    BY <1>3 DEF ChooseConfig, Worker, Applied, SuccessMeansApplied, NewResults
  <1>4. CASE JoinWorkers
    <2>1. UNCHANGED <<toApply, deployment, queue>> /\ toApply \in Config
      BY <1>4 DEF JoinWorkers, InStep
    <2>2. Applied'
      BY <1>4 DEF JoinWorkers, Worker, Applied
    <2>3. ASSUME NEW n \in Nodes, NewResults', results'[n]
          PROVE  CurrentConfig'[n] = toApply'[n]
      <3>1. deployment[n] = Desired(n) /\ queue[n] = toApply[n].batch
        BY <1>4, <2>3 DEF JoinWorkers, NewResults, Applied
      <3>2. toApply[n] \in NodeConfig
        BY <2>1 DEF Config
      <3> QED
        BY <2>1, <3>1, <3>2 DEF CurrentConfig, Batch, Desired, NodeConfig
    <2> QED
      BY <2>2, <2>3 DEF SuccessMeansApplied
  <1> QED
    BY <1>1, <1>2, <1>3, <1>4 DEF Main

\* A step of a thread concerns its own node, and comes while pc is "change"
LEMMA SuccessWorker ==
    ASSUME CentralQueue, TypeOK, InStep, SuccessInv,
           NEW n \in Nodes, ChangeNodeConfig(n)
    PROVE  SuccessInv'
  <1> USE DEF SuccessInv, mainVars
  <1>1. worker[n].at \in {"getNode", "getQueue", "replaceNode", "replaceQueue"}
        /\ UNCHANGED mainVars
    BY DEF ChangeNodeConfig, GetNode, GetQueue, GetFails, ReplaceNode, ReplaceQueue,
           ReplaceFails
  <1>2. pc = "change" /\ ~worker[n].result
    BY <1>1 DEF InStep, Applied
  <1>3. SuccessMeansApplied'
    BY <1>1, <1>2 DEF SuccessMeansApplied, NewResults
  <1>4. \A m \in Nodes \ {n} :
           worker'[m] = worker[m] /\ deployment'[m] = deployment[m] /\ queue'[m] = queue[m]
    BY DEF ChangeNodeConfig, GetNode, GetQueue, GetFails, ReplaceNode, ReplaceQueue,
           ReplaceFails, Retry, clusterVars, TypeOK
  <1>5. /\ worker'[n].at = "replaceQueue" => deployment'[n] = Desired(n)
        /\ worker'[n].result => /\ worker'[n].at = "returned"
                                /\ deployment'[n] = Desired(n)
                                /\ queue'[n] = toApply[n].batch
    <2> USE <1>2 DEF TypeOK, clusterVars
    <2>1. CASE GetNode(n)
      BY <2>1 DEF GetNode
    <2>2. CASE GetQueue(n)
      BY <2>2 DEF GetQueue
    <2>3. CASE GetFails(n)
      BY <2>3 DEF GetFails
    <2>4. CASE ReplaceNode(n)
      BY <2>4 DEF ReplaceNode
    <2>5. CASE ReplaceQueue(n)
      BY <2>5 DEF ReplaceQueue, Applied, Desired
    <2>6. CASE ReplaceFails(n)
      BY <2>6 DEF ReplaceFails, Retry
    <2> QED
      BY <2>1, <2>2, <2>3, <2>4, <2>5, <2>6 DEF ChangeNodeConfig
  <1>6. Applied'
    BY <1>1, <1>4, <1>5 DEF Applied, Desired
  <1> QED
    BY <1>3, <1>6

LEMMA SuccessStep ==
    CentralQueue /\ TypeOK /\ InStep /\ SuccessInv /\ [Next]_vars => SuccessInv'
  <1> SUFFICES ASSUME CentralQueue, TypeOK, InStep, SuccessInv, [Next]_vars
               PROVE  SuccessInv'
    OBVIOUS
  <1>1. CASE Main
    BY <1>1, SuccessMain
  <1>2. CASE \E n \in Nodes : ChangeNodeConfig(n)
    BY <1>2, SuccessWorker
  <1>3. CASE \E n \in Nodes, kind \in Kinds : UpdateStatus(n, kind)
    <2>1. PICK n \in Nodes, kind \in Kinds : UpdateStatus(n, kind)
      BY <1>3
    <2>2. UNCHANGED <<mainVars, clusterVars>>
          /\ \A m \in Nodes : worker'[m].at = worker[m].at
                               /\ worker'[m].result = worker[m].result
      BY <2>1 DEF UpdateStatus, TypeOK
    <2> QED
      BY <2>2 DEF SuccessInv, Applied, Desired, SuccessMeansApplied, NewResults,
                  CurrentConfig, Batch, mainVars, clusterVars
  <1>4. CASE (\E o \in Objects : DeleteObject(o)) \/ RouterEnds \/ UNCHANGED vars
    <2>1. UNCHANGED <<mainVars, worker, deployment, queue>>
      BY <1>4 DEF DeleteObject, RouterEnds, vars, clusterVars
    <2> QED
      BY <2>1 DEF SuccessInv, Applied, Desired, SuccessMeansApplied, NewResults,
                  CurrentConfig, Batch, mainVars
  <1> QED
    BY <1>1, <1>2, <1>3, <1>4 DEF Next, Cluster

\* In a pipeline with central queues, a node that is reported as changed runs the
\* chosen variant, size and batch size: through conflicts, failing calls, retries
\* and the deletion of the pipeline, for any number of nodes and steps.
THEOREM SuccessApplied ==
    ASSUME CentralQueue
    PROVE  Spec => []SuccessMeansApplied
  <1>1. SuccessInv => SuccessMeansApplied
    BY DEF SuccessInv
  <1>2. TypeOK /\ InStep /\ SuccessInv /\ [Next]_vars => SuccessInv'
    BY SuccessStep
  <1> QED
    BY <1>1, <1>2, TypeInit, TypeStep, SuccessInit, PTL DEF Spec

----------------------------------------------------------------------------
(* What is reported runs.  A step that could not read the pipeline saves the  *)
(* flags of the step before with the configuration that step reported: that   *)
(* is right because nothing is written between a report and the next choice.  *)

\* The flags at hand are those of the last report, and nothing has moved since
SinceReport == pc \in {"sleep", "check", "choose", "keep"} \/ (pc = "report" /\ toApply = NoConfig)

StillRuns ==
    SinceReport /\ results # Unbound =>
        \A n \in Nodes : results[n] => CurrentConfig[n] = report.config[n]

ReportInv == TypeOK /\ InStep /\ SuccessInv /\ StillRuns

\* A function of the nodes is not empty, if there are nodes
LEMMA NotEmpty ==
    ASSUME NEW n \in Nodes, NEW S, NEW f \in [Nodes -> S]
    PROVE  f # <<>>
  <1>1. DOMAIN f = Nodes /\ DOMAIN <<>> = {}
    OBVIOUS
  <1> QED
    BY <1>1

LEMMA ReportInit == Init => ReportInv
  BY TypeInit, SuccessInit
  DEF ReportInv, Init, StillRuns, SinceReport

LEMMA ReportStep ==
    ASSUME CentralQueue
    PROVE  ReportInv /\ [Next]_vars => ReportInv'
  <1> SUFFICES ASSUME ReportInv, [Next]_vars PROVE ReportInv'
    OBVIOUS
  <1>1. TypeOK' /\ InStep' /\ SuccessInv'
    BY TypeStep, SuccessStep DEF ReportInv
  <1>2. ASSUME UNCHANGED <<results, report, deployment, queue>>, SinceReport' => SinceReport
        PROVE  ReportInv'
    BY <1>1, <1>2 DEF ReportInv, StillRuns, CurrentConfig, Batch
  <1>3. ASSUME ~SinceReport' PROVE ReportInv'
    BY <1>1, <1>3 DEF ReportInv, StillRuns
  <1>4. CASE StartAdaptation
    <2>1. pc' = "crashed" \/ report' = Save(CurrentConfig)
      BY <1>4 DEF StartAdaptation
    <2>2. CASE pc' = "crashed"
      BY <1>3, <2>2 DEF SinceReport
    <2>3. CASE report' = Save(CurrentConfig)
      <3>1. report'.config = CurrentConfig /\ CurrentConfig' = CurrentConfig
        BY <1>4, <2>3 DEF StartAdaptation, Save, CurrentConfig, Batch, clusterVars
      <3> QED
        BY <1>1, <3>1 DEF ReportInv, StillRuns
    <2> QED
      BY <2>1, <2>2, <2>3
  <1>5. CASE Abort \/ NoLoadData \/ Optimize \/ NoSolution \/ StillUp \/ NothingToChoose
    BY <1>2, <1>5 DEF Abort, NoLoadData, Optimize, NoSolution, StillUp, NothingToChoose,
                      SinceReport, clusterVars
  <1>6. CASE KeepConfig
    <2>1. results' = [n \in Nodes |-> FALSE]
      BY <1>6 DEF KeepConfig
    <2> QED
      BY <1>1, <2>1 DEF ReportInv, StillRuns
  <1>7. CASE ChooseConfig
    BY <1>3, <1>7 DEF ChooseConfig, SinceReport
  <1>8. CASE JoinWorkers
    <2>1. toApply \in Config /\ UNCHANGED toApply /\ pc' \in {"crashed", "report"}
      BY <1>8 DEF JoinWorkers, ReportInv, InStep
    <2>2. CASE Nodes = {}
      BY <1>1, <2>2 DEF ReportInv, StillRuns
    <2>3. CASE Nodes # {}
      <3>1. toApply' # NoConfig
        BY <2>1, <2>3, NotEmpty DEF Config, NoConfig
      <3> QED
        BY <1>3, <2>1, <3>1 DEF SinceReport
    <2> QED
      BY <2>2, <2>3
  <1>9. CASE Report
    <2>1. CASE results = Unbound
      BY <1>3, <1>9, <2>1 DEF Report, SinceReport
    <2>2. CASE results # Unbound
      <3>1. /\ report'.config = IF toApply = NoConfig THEN report.config ELSE toApply
            /\ UNCHANGED <<results, deployment, queue>> /\ pc = "report"
        BY <1>9, <2>2 DEF Report, clusterVars
      <3>2. \A n \in Nodes : results[n] => CurrentConfig[n] = report'.config[n]
        <4>1. CASE toApply = NoConfig
          BY <2>2, <3>1, <4>1 DEF ReportInv, StillRuns, SinceReport
        <4>2. CASE toApply # NoConfig
          BY <2>2, <3>1, <4>2 DEF ReportInv, SuccessInv, SuccessMeansApplied, NewResults
        <4> QED
          BY <4>1, <4>2
      <3> QED
        BY <1>1, <3>1, <3>2 DEF ReportInv, StillRuns, CurrentConfig, Batch
    <2> QED
      BY <2>1, <2>2
  <1>10. ASSUME NEW n \in Nodes, ChangeNodeConfig(n) PROVE ReportInv'
    <2>1. worker[n].at # "idle" /\ UNCHANGED mainVars
      BY <1>10 DEF ChangeNodeConfig, GetNode, GetQueue, GetFails, ReplaceNode, ReplaceQueue,
                   ReplaceFails
    <2>2. pc' = "change"
      BY <2>1 DEF ReportInv, InStep, mainVars
    <2> QED
      BY <1>3, <2>2 DEF SinceReport
  <1>11. CASE Cluster \/ UNCHANGED vars
    <2>1. UNCHANGED <<mainVars, deployment, queue>>
      BY <1>11 DEF Cluster, UpdateStatus, DeleteObject, RouterEnds, vars, clusterVars
    <2> QED
      BY <1>2, <2>1 DEF mainVars, SinceReport
  <1> QED
    BY <1>4, <1>5, <1>6, <1>7, <1>8, <1>9, <1>10, <1>11 DEF Next, Main

\* In a pipeline with central queues the logged report of every step says what runs,
\* also when the step could not read the pipeline and saves what was known before
THEOREM ReportIsTrue ==
    ASSUME CentralQueue
    PROVE  Spec => ReportedConfigRuns
  <1> DEFINE Runs == report' # report =>
                \A n \in Nodes : report'.changed[n] => CurrentConfig[n] = report'.config[n]
  <1>1. ReportInv /\ [Next]_vars => [Runs]_vars
    <2> SUFFICES ASSUME ReportInv, Next, report' # report,
                        NEW n \in Nodes, report'.changed[n]
                 PROVE  CurrentConfig[n] = report'.config[n]
      OBVIOUS
    <2>1. StartAdaptation \/ Report
      BY DEF Next, Main, Abort, NoLoadData, Optimize, NoSolution, KeepConfig, StillUp,
             ChooseConfig, NothingToChoose, JoinWorkers, ChangeNodeConfig, GetNode, GetQueue,
             GetFails, ReplaceNode, ReplaceQueue, ReplaceFails, Cluster, UpdateStatus,
             DeleteObject, RouterEnds, mainVars
    <2>2. CASE StartAdaptation
      BY <2>2 DEF StartAdaptation, Save
    <2>3. CASE Report
      <3>1. /\ report'.config = IF toApply = NoConfig THEN report.config ELSE toApply
            /\ report'.changed = results /\ results # Unbound /\ pc = "report"
        BY <2>3 DEF Report
      <3>2. CASE toApply = NoConfig
        BY <3>1, <3>2 DEF ReportInv, StillRuns, SinceReport
      <3>3. CASE toApply # NoConfig
        BY <3>1, <3>3 DEF ReportInv, SuccessInv, SuccessMeansApplied, NewResults
      <3> QED
        BY <3>2, <3>3
    <2> QED
      BY <2>1, <2>2, <2>3
  <1>2. ReportInv /\ [Next]_vars => ReportInv'
    BY ReportStep
  <1> QED
    BY <1>1, <1>2, ReportInit, PTL DEF Spec, ReportedConfigRuns

----------------------------------------------------------------------------
(* Without teardown and failing calls no thread raises an exception, and      *)
(* without conflicts either every thread changes its node at the first try.   *)

Mild == faults \subseteq {"status"}
Calm == faults = {}

LEMMA FaultsFixed == [Next]_vars => faults' = faults
  BY DEF Next, Main, StartAdaptation, Abort, NoLoadData, Optimize, NoSolution, KeepConfig,
         StillUp, ChooseConfig, NothingToChoose, JoinWorkers, Report, ChangeNodeConfig,
         GetNode, GetQueue, GetFails, ReplaceNode, ReplaceQueue, ReplaceFails, Cluster,
         UpdateStatus, DeleteObject, RouterEnds, vars, clusterVars

MildInv ==
    /\ gone = {} /\ pc # "crashed"
    /\ pc = "report" => results # Unbound
    /\ \A n \in Nodes : worker[n].at # "raised"

LEMMA MildStep ==
    ASSUME Nodes # {}, Mild
    PROVE  TypeOK /\ MildInv /\ [Next]_vars => MildInv'
  <1> SUFFICES ASSUME TypeOK, MildInv, [Next]_vars PROVE MildInv'
    OBVIOUS
  <1> USE DEF MildInv
  <1>1. "api" \notin faults /\ "teardown" \notin faults /\ ~ReadMayFail
    BY DEF Mild, ReadMayFail
  <1>2. CASE StartAdaptation \/ Abort \/ NoLoadData \/ Optimize \/ NoSolution \/ StillUp
    BY <1>1, <1>2 DEF StartAdaptation, Abort, NoLoadData, Optimize, NoSolution, StillUp,
                      clusterVars
  <1>3. CASE KeepConfig
    <2>1. results' # Unbound
      BY <1>3, NotEmpty DEF KeepConfig, Unbound
    <2> QED
      BY <1>3, <2>1 DEF KeepConfig, KeepCurrent, clusterVars
  <1>4. CASE ChooseConfig \/ NothingToChoose
    BY <1>1, <1>4 DEF ChooseConfig, NothingToChoose, Worker, clusterVars
  <1>5. CASE JoinWorkers
    <2>1. results' = [n \in Nodes |-> worker[n].result] /\ pc' = "report"
      BY <1>5 DEF JoinWorkers
    <2>2. results' \in [Nodes -> BOOLEAN]
      BY <2>1 DEF TypeOK
    <2>3. results' # Unbound
      BY <2>2, NotEmpty DEF Unbound
    <2> QED
      BY <1>5, <2>1, <2>3 DEF JoinWorkers, Worker, clusterVars
  <1>6. CASE Report
    BY <1>6 DEF Report, clusterVars
  <1>7. ASSUME NEW n \in Nodes, ChangeNodeConfig(n) PROVE MildInv'
    <2>1. ~GetFails(n)
      BY <1>1 DEF GetFails, CallFails, Exists
    <2>2. UNCHANGED <<mainVars, gone>>
      BY <1>7, <2>1 DEF ChangeNodeConfig, GetNode, GetQueue, ReplaceNode, ReplaceQueue,
                        ReplaceFails, clusterVars
    <2>3. \A m \in Nodes : worker'[m].at # "raised"
      BY <1>7, <2>1 DEF ChangeNodeConfig, GetNode, GetQueue, ReplaceNode, ReplaceQueue,
                        ReplaceFails, Retry, TypeOK
    <2> QED
      BY <2>2, <2>3 DEF mainVars
  <1>8. CASE Cluster
    <2>1. PICK n \in Nodes, kind \in Kinds : UpdateStatus(n, kind)
      BY <1>1, <1>8 DEF Cluster, DeleteObject, RouterEnds
    <2>2. \A m \in Nodes : worker'[m].at = worker[m].at
      BY <2>1 DEF UpdateStatus, TypeOK
    <2> QED
      BY <2>1, <2>2 DEF UpdateStatus, mainVars, clusterVars
  <1>9. CASE UNCHANGED vars
    BY <1>9 DEF vars, mainVars, clusterVars
  <1> QED
    BY <1>2, <1>3, <1>4, <1>5, <1>6, <1>7, <1>8, <1>9 DEF Next, Main

\* However often the operator's writes collide with the adapter's, no exception ends the
\* loop, if nothing is deleted and no call fails otherwise
THEOREM EndsOrderly ==
    ASSUME Nodes # {}
    PROVE  Spec => []OrderlyEnd
  <1> DEFINE Inv == TypeOK /\ InStep /\ (Mild => MildInv)
  <1>1. Init => Inv
    BY TypeInit DEF Init, MildInv, Worker
  <1>2. Inv /\ [Next]_vars => Inv'
    BY TypeStep, MildStep, FaultsFixed DEF Mild
  <1>3. Inv => OrderlyEnd
    BY DEF OrderlyEnd, Mild, MildInv
  <1> QED
    BY <1>1, <1>2, <1>3, PTL DEF Spec

\* What a thread has read stays valid, so it ends with both objects replaced
CalmInv ==
    /\ gone = {}
    /\ \A n \in Nodes :
          /\ worker[n].at # "raised"
          /\ worker[n].at \in {"getQueue", "replaceNode"} => "node" \in worker[n].fresh
          /\ worker[n].at \in {"replaceNode", "replaceQueue"} => "queue" \in worker[n].fresh
          /\ worker[n].at = "returned" => worker[n].result
    /\ PipelineMoves

LEMMA CalmStep ==
    ASSUME CentralQueue, Calm
    PROVE  TypeOK /\ InStep /\ SuccessInv /\ CalmInv /\ [Next]_vars => CalmInv'
  <1> SUFFICES ASSUME TypeOK, InStep, SuccessInv, CalmInv, [Next]_vars PROVE CalmInv'
    OBVIOUS
  <1>1. ~ReadMayFail /\ gone = {} /\ faults = {}
    BY DEF Calm, ReadMayFail, CalmInv
  <1>2. CASE StartAdaptation \/ Abort \/ NoLoadData \/ Optimize \/ NoSolution \/ StillUp
               \/ Report
    <2>1. pc' # "report" /\ UNCHANGED <<worker, gone, faults>>
      BY <1>2 DEF StartAdaptation, Abort, NoLoadData, Optimize, NoSolution, StillUp, Report,
                  clusterVars
    <2> QED
      BY <2>1 DEF CalmInv, PipelineMoves
  <1>3. CASE KeepConfig
    <2>1. toApply' = CurrentConfig /\ UNCHANGED <<worker, clusterVars>>
      BY <1>1, <1>3 DEF KeepConfig, KeepCurrent
    <2> QED
      BY <2>1 DEF CalmInv, PipelineMoves, CurrentConfig, Batch, clusterVars
  <1>4. CASE ChooseConfig \/ NothingToChoose
    BY <1>1, <1>4 DEF ChooseConfig, NothingToChoose, Worker, CalmInv, PipelineMoves,
                      clusterVars
  <1>5. CASE JoinWorkers
    <2>1. UNCHANGED <<toApply, clusterVars>> /\ toApply \in Config
      BY <1>5 DEF JoinWorkers, InStep
    <2>2. ASSUME NEW n \in Nodes
          PROVE  /\ deployment[n] = Desired(n) /\ queue[n] = toApply[n].batch
                 /\ toApply[n] \in NodeConfig
      BY <1>5, <2>1 DEF JoinWorkers, CalmInv, SuccessInv, Applied, Config
    <2>3. ASSUME NEW n \in Nodes PROVE CurrentConfig[n] = toApply[n]
      <3>1. deployment[n] = Desired(n) /\ queue[n] = toApply[n].batch
        BY <2>2
      <3>2. toApply[n] \in NodeConfig
        BY <2>2
      <3> QED
        BY <3>1, <3>2 DEF CurrentConfig, Batch, Desired, NodeConfig
    <2>4. CurrentConfig = toApply
      BY <2>1, <2>3, CurrentConfigType DEF Config
    <2>5. CurrentConfig' = toApply'
      BY <2>1, <2>4 DEF CurrentConfig, Batch, clusterVars
    <2> QED
      BY <1>5, <2>1, <2>5 DEF JoinWorkers, Worker, CalmInv, PipelineMoves, clusterVars
  <1>6. ASSUME NEW n \in Nodes, ChangeNodeConfig(n) PROVE CalmInv'
    <2>1. ~GetFails(n) /\ ~ReplaceFails(n)
      BY <1>1 DEF GetFails, ReplaceFails, CallFails, Exists, Kinds, CalmInv
    <2>2. worker[n].at # "idle" /\ UNCHANGED <<mainVars, gone, faults>>
      BY <1>6, <2>1 DEF ChangeNodeConfig, GetNode, GetQueue, ReplaceNode, ReplaceQueue,
                        clusterVars
    <2>3. pc' # "report"
      BY <2>2 DEF InStep, mainVars
    <2>4. \A m \in Nodes \ {n} : worker'[m] = worker[m]
      BY <1>6, <2>1 DEF ChangeNodeConfig, GetNode, GetQueue, ReplaceNode, ReplaceQueue, TypeOK
    <2>5. /\ worker'[n].at # "raised"
          /\ worker'[n].at \in {"getQueue", "replaceNode"} => "node" \in worker'[n].fresh
          /\ worker'[n].at \in {"replaceNode", "replaceQueue"} => "queue" \in worker'[n].fresh
          /\ worker'[n].at = "returned" => worker'[n].result
      <3> USE DEF TypeOK
      <3>1. CASE GetNode(n)
        BY <3>1 DEF GetNode
      <3>2. CASE GetQueue(n)
        BY <3>2 DEF GetQueue, CalmInv
      <3>3. CASE ReplaceNode(n)
        BY <3>3 DEF ReplaceNode, StillFresh, CalmInv
      <3>4. CASE ReplaceQueue(n)
        BY <3>4 DEF ReplaceQueue
      <3> QED
        BY <1>6, <2>1, <3>1, <3>2, <3>3, <3>4 DEF ChangeNodeConfig
    <2> QED
      BY <2>2, <2>3, <2>4, <2>5 DEF CalmInv, PipelineMoves
  <1>7. CASE Cluster
    BY <1>1, <1>7 DEF Cluster, UpdateStatus, DeleteObject, RouterEnds
  <1>8. CASE UNCHANGED vars
    BY <1>8 DEF vars, mainVars, clusterVars, CalmInv, PipelineMoves, CurrentConfig, Batch
  <1> QED
    BY <1>2, <1>3, <1>4, <1>5, <1>6, <1>7, <1>8 DEF Next, Main

\* Without interference a pipeline with central queues moves as a whole: when a step is
\* reported, every node and every queue has the configuration that was chosen
THEOREM MovesAsAWhole ==
    ASSUME CentralQueue
    PROVE  Spec => []PipelineMoves
  <1> DEFINE Inv == TypeOK /\ InStep /\ SuccessInv /\ (Calm => CalmInv)
  <1>1. Init => Inv
    BY TypeInit, SuccessInit DEF Init, CalmInv, PipelineMoves, Worker
  <1>2. Inv /\ [Next]_vars => Inv'
    BY TypeStep, SuccessStep, CalmStep, FaultsFixed DEF Calm
  <1>3. Inv => PipelineMoves
    BY DEF CalmInv, PipelineMoves, Calm
  <1> QED
    BY <1>1, <1>2, <1>3, PTL DEF Spec
=============================================================================
